---------------------------- MODULE Spec2Model ----------------------------
(***************************************************************************)
(* A model of the transcript cleaning pipeline: the duplicate merger       *)
(* (pipeline/deduplicator.py), the learned correction dictionary           *)
(* (pipeline/learned_dictionary.py), the gazetteer builder                 *)
(* (pipeline/gazetteer.py), the fuzzy corrector                            *)
(* (pipeline/fuzzy_corrector.py) and the per-match driver                  *)
(* (pipeline/orchestrator.py).                                             *)
(*                                                                         *)
(* Texts are sequences of one-character strings, so that strip(), lower(), *)
(* slicing and the similarity ratio are computed on the characters.        *)
(* Python floats are modelled as exact rationals [num, den] in lowest      *)
(* terms.                                                                  *)
(***************************************************************************)
EXTENDS Integers, Sequences, FiniteSets, TLC

VARIABLES
    \* ---- deduplicate_segments: its arguments, its result, the result of
    \* ---- running it again on its own output
    segments, threshold, deduped, removed, deduped2, removed2, ddpc,
    \* ---- the learned dictionary: the file at LEARNED_CORRECTIONS_PATH, the
    \* ---- last operation on it and what it returned, and the corrections
    \* ---- handed to update_learned_dictionary so far, per key
    store_file, op, returned, lookup_text, lookup_result, recorded,
    \* ---- the libraries the pipeline calls: the phonetic codes of
    \* ---- jellyfish, the entities extract_entities detects in a text, the
    \* ---- language langdetect reports
    jellyfish, ner, langdetect,
    \* ---- clean_match: its arguments, the stage it has reached, its
    \* ---- locals (cm), the cleaned output files, and the runs finished
    match_data, dry_run, pc, cm, output_files, runs,
    \* ---- single calls of the pipeline's functions, each with its arguments,
    \* ---- the stage it has reached and what it returned: the fuzzy
    \* ---- corrector (fc), the hallucination filter (hf), the gazetteer
    \* ---- builder (gz)
    fc, hf, gz,
    \* ---- calls of update_learned_dictionary made by runs of the pipeline
    \* ---- that share the file: whether the runs are serialized, whether
    \* ---- the file holds a JSON document, and each call's position,
    \* ---- argument and local dict
    upd

ddvars == <<segments, threshold, deduped, removed, deduped2, removed2, ddpc>>
ldvars == <<store_file, op, returned, lookup_text, lookup_result, recorded>>
envvars == <<jellyfish, ner, langdetect>>
cmvars == <<match_data, dry_run, pc, cm, output_files, runs>>
fnvars == <<fc, hf, gz, upd>>
vars == <<ddvars, ldvars, envvars, cmvars, fnvars>>

---------------------------------------------------------------------------
(* Bounds of the model *)

\* longest segment list handed to deduplicate_segments
MaxSegs == 3

\* longest list of corrections handed to update_learned_dictionary
MaxBatch == 2

\* most segments of a match handed to clean_match
MaxMatchSegs == 2

\* most runs of clean_match, one after the other
MaxRuns == 2

\* most sightings of a key, when several keys, corrected values and scores
\* are recorded
MaxSeen == 3

\* most sightings of a key, when one key is recorded with one corrected
\* value and one score
MaxSeenLong == 101

---------------------------------------------------------------------------
(* Numbers *)

Max(a, b) == IF a >= b THEN a ELSE b
Min(a, b) == IF a <= b THEN a ELSE b

RECURSIVE GCD(_, _)
GCD(a, b) == IF b = 0 THEN a ELSE GCD(b, a % b)

\* a Python float as an exact rational in lowest terms, d > 0, n >= 0
Rat(n, d) == LET g == GCD(n, d) IN [num |-> n \div g, den |-> d \div g]
RatInt(i) == [num |-> i, den |-> 1]
RatGeq(r, s) == r.num * s.den >= s.num * r.den
RatGt(r, s) == r.num * s.den > s.num * r.den
RatAdd(r, s) == Rat(r.num * s.den + s.num * r.den, r.den * s.den)
RatSub(r, s) == Rat(r.num * s.den - s.num * r.den, r.den * s.den)
RatMul(r, s) == Rat(r.num * s.num, r.den * s.den)
RatDiv(r, s) == Rat(r.num * s.den, r.den * s.num)

---------------------------------------------------------------------------
(* Strings *)

Whitespace == {" "}

RECURSIVE lstrip(_)
lstrip(s) == IF s # <<>> /\ Head(s) \in Whitespace THEN lstrip(Tail(s)) ELSE s

RECURSIVE rstrip(_)
rstrip(s) ==
    IF s # <<>> /\ s[Len(s)] \in Whitespace
    THEN rstrip(SubSeq(s, 1, Len(s) - 1))
    ELSE s

\* str.strip()
strip(s) == rstrip(lstrip(s))

UpperCase ==
    << "A", "B", "C", "D", "E", "F", "G", "H", "I", "J", "K", "L", "M",
       "N", "O", "P", "Q", "R", "S", "T", "U", "V", "W", "X", "Y", "Z" >>

LowerCase ==
    << "a", "b", "c", "d", "e", "f", "g", "h", "i", "j", "k", "l", "m",
       "n", "o", "p", "q", "r", "s", "t", "u", "v", "w", "x", "y", "z" >>

lowerChar(c) ==
    IF \E i \in 1..Len(UpperCase) : UpperCase[i] = c
    THEN LowerCase[CHOOSE i \in 1..Len(UpperCase) : UpperCase[i] = c]
    ELSE c

\* str.lower()
lower(s) == [i \in 1..Len(s) |-> lowerChar(s[i])]

\* Python's None
None == <<"None">>

\* s[:n]
Prefix(s, n) == SubSeq(s, 1, Min(Len(s), n))

\* one row of the longest-common-subsequence table: the row of the prefix
\* ending in character c, from the row prev of the prefix before it
RECURSIVE LCSRow(_, _, _, _)
LCSRow(prev, c, t, row) ==
    IF Len(row) = Len(t) + 1 THEN row
    ELSE LET j == Len(row) IN
         LCSRow(prev, c, t,
                Append(row, IF c = t[j] THEN prev[j] + 1
                            ELSE Max(prev[j + 1], row[j])))

\* the row of the prefix s[1..i]; row 0 is all zeros
RECURSIVE LCSRows(_, _, _)
LCSRows(s, i, t) ==
    IF i = 0 THEN [j \in 1..(Len(t) + 1) |-> 0]
    ELSE LET prev == LCSRows(s, i - 1, t) IN
         IF prev[1] = 0 THEN LCSRow(prev, s[i], t, <<0>>) ELSE prev

\* length of a longest common subsequence
LCS(s, t) == LCSRows(s, Len(s), t)[Len(t) + 1]

\* rapidfuzz.fuzz.ratio: the normalized Indel similarity, 0..100:
\* 100 * (1 - (len1 + len2 - 2*lcs) / (len1 + len2)); two empty strings
\* are 100 similar
ratio(s, t) ==
    IF Len(s) + Len(t) = 0 THEN RatInt(100)
    ELSE Rat(200 * LCS(s, t), Len(s) + Len(t))

Digits == << "0", "1", "2", "3", "4", "5", "6", "7", "8", "9" >>

\* the characters in code-point order
CharOrder ==
    << " ", "!", "'", "(", ")", "+", ",", "-", "." >> \o Digits
       \o << ":", ";", "?" >> \o UpperCase \o << "_" >> \o LowerCase
       \o << "U+00E9", "U+2019", "U+4E2D" >>

\* the typographic apostrophe, e with acute accent, a CJK ideograph
RightQuote == "U+2019"
EAcute == "U+00E9"
CJK == "U+4E2D"

ord(c) == CHOOSE i \in 1..Len(CharOrder) : CharOrder[i] = c

\* s < t as Python compares strings
RECURSIVE StrLess(_, _)
StrLess(s, t) ==
    IF t = <<>> THEN FALSE
    ELSE IF s = <<>> THEN TRUE
    ELSE IF Head(s) = Head(t) THEN StrLess(Tail(s), Tail(t))
    ELSE ord(Head(s)) < ord(Head(t))

\* str.split(): the maximal runs of characters that are not whitespace
RECURSIVE SplitFrom(_, _, _)
SplitFrom(s, words, word) ==
    IF s = <<>>
    THEN IF word = <<>> THEN words ELSE Append(words, word)
    ELSE IF Head(s) \in Whitespace
    THEN SplitFrom(Tail(s), IF word = <<>> THEN words ELSE Append(words, word),
                   <<>>)
    ELSE SplitFrom(Tail(s), words, Append(word, Head(s)))

split(s) == SplitFrom(s, <<>>, <<>>)

\* " ".join(words)
RECURSIVE join(_)
join(words) ==
    IF words = <<>> THEN <<>>
    ELSE IF Len(words) = 1 THEN words[1]
    ELSE words[1] \o <<" ">> \o join(Tail(words))

\* sorted(words)
RECURSIVE Insert(_, _)
Insert(w, sortedWords) ==
    IF sortedWords = <<>> THEN <<w>>
    ELSE IF StrLess(w, Head(sortedWords)) THEN <<w>> \o sortedWords
    ELSE <<Head(sortedWords)>> \o Insert(w, Tail(sortedWords))

RECURSIVE sorted(_)
sorted(words) ==
    IF words = <<>> THEN <<>>
    ELSE Insert(words[Len(words)], sorted(SubSeq(words, 1, Len(words) - 1)))

\* rapidfuzz.fuzz.token_sort_ratio: the ratio of the strings with their
\* words sorted
token_sort_ratio(s, t) == ratio(join(sorted(split(s))), join(sorted(split(t))))

\* str.endswith, str.startswith
endswith(s, suffix) ==
    Len(s) >= Len(suffix)
       /\ SubSeq(s, Len(s) - Len(suffix) + 1, Len(s)) = suffix

startswith(s, prefix) ==
    Len(s) >= Len(prefix) /\ SubSeq(s, 1, Len(prefix)) = prefix

---------------------------------------------------------------------------
(* Python dicts: a sequence of <<key, value>> pairs in insertion order *)

\* key in d
Has(d, key) == \E i \in 1..Len(d) : d[i][1] = key

\* d[key]
Get(d, key) == d[CHOOSE i \in 1..Len(d) : d[i][1] = key][2]

\* d[key] = value: a key already there keeps its place
Put(d, key, value) ==
    IF Has(d, key)
    THEN [i \in 1..Len(d) |-> IF d[i][1] = key THEN <<key, value>> ELSE d[i]]
    ELSE Append(d, <<key, value>>)

\* list(d.keys())
Keys(d) == [i \in 1..Len(d) |-> d[i][1]]

\* the mapping of d, its order forgotten
AsMap(d) == [key \in {d[i][1] : i \in 1..Len(d)} |-> Get(d, key)]

---------------------------------------------------------------------------
(* pipeline/deduplicator.py *)

DUPLICATE_SIMILARITY_THRESHOLD == 95

\* the characters of removed[...]["text"] kept by text[:80]
REMOVED_TEXT_CHARS == 80

Segment(id, start, end, text, half) ==
    [segment_id |-> id, start_time |-> start, end_time |-> end,
     text |-> text, half |-> half]

\* the similarity computed at line 67
Similarity(current, seg) == ratio(strip(current.text), strip(seg.text))

\* the duplicate branch's update of the accumulator (line 71), with the
\* accumulator taking over the duplicate's text as well
ExtendTakingText(current, seg) ==
    [current EXCEPT !.end_time = Max(current.end_time, seg.end_time),
                    !.text = seg.text]

\* the duplicate branch's update of the accumulator (line 71), taking the
\* duplicate's end time whatever the accumulator's
ExtendToLast(current, seg) ==
    [current EXCEPT !.end_time = seg.end_time]

\* the duplicate branch's update of the accumulator (line 71)
Extend(current, seg) ==
    [current EXCEPT !.end_time = Max(current.end_time, seg.end_time)]

\* the entry appended to removed, naming the removed segment as the one it
\* duplicates
RemovedEntryNamingItself(current, seg, similarity) ==
    [segment_id |-> seg.segment_id,
     half |-> seg.half,
     start_time |-> seg.start_time,
     text |-> Prefix(seg.text, REMOVED_TEXT_CHARS),
     duplicate_of |-> seg.segment_id,
     similarity |-> similarity]

\* the entry appended to removed (lines 72-79)
RemovedEntry(current, seg, similarity) ==
    [segment_id |-> seg.segment_id,
     half |-> seg.half,
     start_time |-> seg.start_time,
     text |-> Prefix(seg.text, REMOVED_TEXT_CHARS),
     duplicate_of |-> current.segment_id,
     similarity |-> similarity]

\* the test of line 55, never true
HalfNeverDiffers(current, seg) == FALSE

\* the test of line 55: only compare within the same half
HalfDiffers(current, seg) == seg.half # current.half

\* one iteration of the loop (lines 52-89) on the loop state
\* st = [current, deduped, removed]
DedupStep(st, seg, thr) ==
    IF HalfDiffers(st.current, seg)
    THEN [current |-> seg,
          deduped |-> Append(st.deduped, st.current),
          removed |-> st.removed]
    ELSE LET similarity == Similarity(st.current, seg) IN
         IF RatGeq(similarity, RatInt(thr))
         THEN [current |-> Extend(st.current, seg),
               deduped |-> st.deduped,
               removed |-> Append(st.removed,
                                  RemovedEntry(st.current, seg, similarity))]
         ELSE [current |-> seg,
               deduped |-> Append(st.deduped, st.current),
               removed |-> st.removed]

\* the loop state after segments[1..i] (Python's segments[0..i-1])
RECURSIVE DedupLoop(_, _, _)
DedupLoop(segs, i, thr) ==
    IF i = 1
    THEN [current |-> segs[1], deduped |-> <<>>, removed |-> <<>>]
    ELSE DedupStep(DedupLoop(segs, i - 1, thr), segs[i], thr)

\* deduplicate_segments(segments, threshold) -> (deduped, removed)
deduplicate_segments(segs, thr) ==
    IF segs = <<>>
    THEN [deduped |-> <<>>, removed |-> <<>>]
    ELSE LET st == DedupLoop(segs, Len(segs), thr) IN
         [deduped |-> Append(st.deduped, st.current), removed |-> st.removed]

---------------------------------------------------------------------------
(* pipeline/fuzzy_corrector.py: the Correction record *)

Correction(original, corrected, combined, fuzzy, phonetic, context, id, method) ==
    [original |-> original, corrected |-> corrected,
     combined_score |-> combined, fuzzy_score |-> fuzzy,
     phonetic_match |-> phonetic, context_match |-> context,
     segment_id |-> id, method |-> method]

---------------------------------------------------------------------------
(* pipeline/learned_dictionary.py *)

\* The file at LEARNED_CORRECTIONS_PATH: absent, or a JSON object whose
\* members are held in the order they were written, one record per key.
NoFile == [exists |-> FALSE, members |-> <<>>]

EmptyDict == <<>>

\* json.load of the file's object: the dict key -> entry
ParseStore(file) ==
    [i \in 1..Len(file.members) |->
        LET m == file.members[i] IN
        << m.key,
           [correct |-> m.correct, confidence |-> m.confidence,
            seen_count |-> m.seen_count,
            fuzzy_score_avg |-> m.fuzzy_score_avg] >>]

\* load_learned_dictionary, creating the file when it does not exist
load_creating(file) ==
    IF ~file.exists
    THEN [dictionary |-> EmptyDict, file |-> [exists |-> TRUE, members |-> <<>>]]
    ELSE [dictionary |-> ParseStore(file), file |-> file]

\* load_learned_dictionary returning {} whatever the file holds
load_empty(file) == [dictionary |-> EmptyDict, file |-> file]

\* load_learned_dictionary: the dict read, and the file as the call leaves it
load_learned_dictionary(file) ==
    IF ~file.exists
    THEN [dictionary |-> EmptyDict, file |-> file]
    ELSE [dictionary |-> ParseStore(file), file |-> file]

\* save_learned_dictionary: the file it writes, the whole dict each time
save_learned_dictionary(dictionary) ==
    [exists |-> TRUE,
     members |-> [i \in 1..Len(dictionary) |->
                    LET entry == dictionary[i][2] IN
                    [key |-> dictionary[i][1],
                     correct |-> entry.correct,
                     confidence |-> entry.confidence,
                     seen_count |-> entry.seen_count,
                     fuzzy_score_avg |-> entry.fuzzy_score_avg]]]

\* 0.99
CONFIDENCE_CAP == Rat(99, 100)

\* min(0.99, 1.0 - 1.0 / seen_count): the sighting being counted left out
ConfidenceOffByOne(seen_count) ==
    LET c == RatSub(RatInt(1), RatDiv(RatInt(1), RatInt(seen_count))) IN
    IF RatGeq(c, CONFIDENCE_CAP) THEN CONFIDENCE_CAP ELSE c

\* 1.0 - 1.0 / (seen_count + 1), without the cap
ConfidenceUncapped(seen_count) ==
    RatSub(RatInt(1), RatDiv(RatInt(1), RatInt(seen_count + 1)))

\* min(0.99, 1.0 - (1.0 / (seen_count + 1)))  (line 73)
Confidence(seen_count) ==
    LET c == RatSub(RatInt(1), RatDiv(RatInt(1), RatInt(seen_count + 1))) IN
    IF RatGeq(c, CONFIDENCE_CAP) THEN CONFIDENCE_CAP ELSE c

\* (avg * n + score) / n: the old average weighted by the new count
RunningAverageOverweighted(avg, n, score) ==
    RatDiv(RatAdd(RatMul(avg, RatInt(n)), score), RatInt(n))

\* (fuzzy_score_avg * (n - 1) + combined_score) / n  (lines 69-71)
RunningAverage(avg, n, score) ==
    RatDiv(RatAdd(RatMul(avg, RatInt(n - 1)), score), RatInt(n))

\* the update of an existing entry, taking the corrected value of the
\* correction as well
UpdatedEntryTakingCorrected(entry, corr) ==
    LET n == entry.seen_count + 1 IN
    [entry EXCEPT
        !.correct = corr.corrected,
        !.seen_count = n,
        !.fuzzy_score_avg = RunningAverage(@, n, corr.combined_score),
        !.confidence = Confidence(n)]

\* the update of an existing entry (lines 64-73)
UpdatedEntry(entry, corr) ==
    LET n == entry.seen_count + 1 IN
    [entry EXCEPT
        !.seen_count = n,
        !.fuzzy_score_avg = RunningAverage(@, n, corr.combined_score),
        !.confidence = Confidence(n)]

\* the entry of a new key (lines 76-81)
NewEntry(corr) ==
    [correct |-> corr.corrected,
     confidence |-> Rat(1, 2),
     seen_count |-> 1,
     fuzzy_score_avg |-> corr.combined_score]

\* one iteration of the loop, the entry of the key written anew whether the
\* key is there or not
UpdateOneResetting(dictionary, corr) ==
    Put(dictionary, lower(corr.original), NewEntry(corr))

\* one iteration of the loop over the corrections (lines 61-81)
UpdateOne(dictionary, corr) ==
    LET key == lower(corr.original) IN
    IF Has(dictionary, key)
    THEN Put(dictionary, key, UpdatedEntry(Get(dictionary, key), corr))
    ELSE Put(dictionary, key, NewEntry(corr))

\* the dict after corrections[1..i]
RECURSIVE UpdateAll(_, _, _)
UpdateAll(dictionary, corrections, i) ==
    IF i = 0 THEN dictionary
    ELSE UpdateOne(UpdateAll(dictionary, corrections, i - 1), corrections[i])

\* update_learned_dictionary(corrections): the dict returned and the file
\* as the call leaves it
update_learned_dictionary(file, corrections) ==
    LET dictionary ==
            UpdateAll(load_learned_dictionary(file).dictionary,
                      corrections, Len(corrections))
    IN [dictionary |-> dictionary, file |-> save_learned_dictionary(dictionary)]

\* the gate of line 106: at least 2 sightings and 0.6 confidence
EnoughSightings(entry) ==
    entry.seen_count >= 2 /\ RatGeq(entry.confidence, Rat(6, 10))

\* the key looked up when entity_text is not lowercased
LookupKeyAsGiven(entity_text) == entity_text

\* the key looked up (line 101)
LookupKey(entity_text) == lower(entity_text)

\* lookup_learned(entity_text): the value returned and the file as the call
\* leaves it
lookup_learned(file, entity_text) ==
    LET l == load_learned_dictionary(file)
        dictionary == l.dictionary
        key == LookupKey(entity_text)
    IN [result |-> IF Has(dictionary, key)
                      /\ EnoughSightings(Get(dictionary, key))
                   THEN Get(dictionary, key).correct
                   ELSE None,
        file |-> l.file]

---------------------------------------------------------------------------
(* pipeline/gazetteer.py *)

\* A list-valued key the labels do not have
Absent == << <<"absent">> >>

\* labels = None
NoLabels == [none |-> TRUE]

\* A parsed Labels-caption.json.  A key that is read with .get(key, default)
\* and is missing holds its default here; referee_matched, whose default is
\* the value of another key, is Absent when missing.
NoTeam == [name |-> <<>>, names |-> <<>>]
NoLineup == [players |-> <<>>, coach |-> <<>>]

EmptyLabels ==
    [lineup |-> [home |-> NoLineup, away |-> NoLineup],
     referee_matched |-> Absent, referee |-> <<>>,
     gameHomeTeam |-> <<>>, gameAwayTeam |-> <<>>,
     home |-> NoTeam, away |-> NoTeam, venue |-> <<>>]

\* an entry of lineup.<side>.players or lineup.<side>.coach
Person(long_name, short_name, name) ==
    [long_name |-> long_name, short_name |-> short_name, name |-> name]

\* the loop over the variants in add_name (lines 44-47)
RECURSIVE AddVariants(_, _, _, _)
AddVariants(gazetteer, canonical, variants, i) ==
    IF i = 0 THEN gazetteer
    ELSE LET g == AddVariants(gazetteer, canonical, variants, i - 1)
             v == strip(variants[i])
         IN IF v # <<>> THEN Put(g, v, canonical) ELSE g

\* add_name(canonical, *variants)  (lines 37-47)
add_name(gazetteer, canonical, variants) ==
    LET c == strip(canonical) IN
    IF c = <<>> THEN gazetteer
    ELSE AddVariants(Put(gazetteer, c, c), c, variants, Len(variants))

\* extract_surname(full_name)  (lines 49-61)
extract_surname(full_name) ==
    LET parts == split(strip(full_name)) IN
    IF Len(parts) <= 1 THEN strip(full_name)
    ELSE LET first == parts[1]
             rest == join(Tail(parts))
         IN IF rest # <<>> THEN rest ELSE first

\* one iteration of the loop over the players (lines 68-76)
AddPlayer(gazetteer, player) ==
    IF player.long_name # <<>>
    THEN add_name(gazetteer, player.long_name,
                  << player.short_name, player.name,
                     extract_surname(player.long_name) >>)
    ELSE IF player.short_name # <<>>
    THEN add_name(gazetteer, player.short_name, << player.name >>)
    ELSE gazetteer

RECURSIVE AddPlayers(_, _, _)
AddPlayers(gazetteer, players, i) ==
    IF i = 0 THEN gazetteer
    ELSE AddPlayer(AddPlayers(gazetteer, players, i - 1), players[i])

\* one iteration of the loop over the coaches (lines 81-86)
AddCoach(gazetteer, coach) ==
    IF coach.long_name # <<>>
    THEN add_name(gazetteer, coach.long_name,
                  << coach.short_name, coach.name,
                     extract_surname(coach.long_name) >>)
    ELSE gazetteer

RECURSIVE AddCoaches(_, _, _)
AddCoaches(gazetteer, coaches, i) ==
    IF i = 0 THEN gazetteer
    ELSE AddCoach(AddCoaches(gazetteer, coaches, i - 1), coaches[i])

\* the players then the coaches of one side (lines 65-86)
AddLineup(gazetteer, lineup) ==
    AddCoaches(AddPlayers(gazetteer, lineup.players, Len(lineup.players)),
               lineup.coach, Len(lineup.coach))

\* the loop over the referees (lines 89-92)
RECURSIVE AddReferees(_, _, _)
AddReferees(gazetteer, referees, i) ==
    IF i = 0 THEN gazetteer
    ELSE LET g == AddReferees(gazetteer, referees, i - 1)
             ref_name == referees[i]
         IN IF ref_name # <<>>
            THEN add_name(g, ref_name, << extract_surname(ref_name) >>)
            ELSE g

\* gameHomeTeam, gameAwayTeam (lines 95-100)
AddGameTeams(gazetteer, labels) ==
    LET g == IF labels.gameHomeTeam # <<>>
             THEN add_name(gazetteer, labels.gameHomeTeam, <<>>)
             ELSE gazetteer
    IN IF labels.gameAwayTeam # <<>>
       THEN add_name(g, labels.gameAwayTeam, <<>>)
       ELSE g

\* the loop over the alternative names of a team (lines 108-110)
RECURSIVE AddAltNames(_, _, _, _)
AddAltNames(gazetteer, main_name, names, i) ==
    IF i = 0 THEN gazetteer
    ELSE LET g == AddAltNames(gazetteer, main_name, names, i - 1)
             alt_name == names[i]
         IN IF alt_name # <<>>
            THEN Put(g, alt_name,
                     IF main_name # <<>> THEN main_name ELSE alt_name)
            ELSE g

\* the "home" or "away" object (lines 104-110)
AddTeamObject(gazetteer, team_obj) ==
    LET g == IF team_obj.name # <<>>
             THEN add_name(gazetteer, team_obj.name, <<>>)
             ELSE gazetteer
    IN AddAltNames(g, team_obj.name, team_obj.names, Len(team_obj.names))

\* the loop over the venues (lines 113-115)
RECURSIVE AddVenues(_, _, _)
AddVenues(gazetteer, venues, i) ==
    IF i = 0 THEN gazetteer
    ELSE LET g == AddVenues(gazetteer, venues, i - 1) IN
         IF venues[i] # <<>> THEN add_name(g, venues[i], <<>>) ELSE g

\* extract_names_from_labels(labels)  (lines 16-117)
extract_names_from_labels(labels) ==
    LET players == AddLineup(AddLineup(<<>>, labels.lineup.home),
                             labels.lineup.away)
        referee_list == IF labels.referee_matched # Absent
                        THEN labels.referee_matched
                        ELSE labels.referee
        referees == AddReferees(players, referee_list, Len(referee_list))
        teams == AddTeamObject(
                     AddTeamObject(AddGameTeams(referees, labels), labels.home),
                     labels.away)
    IN AddVenues(teams, labels.venue, Len(labels.venue))

\* load_learned_corrections()  (lines 120-131)
load_learned_corrections(file) ==
    IF ~file.exists THEN <<>> ELSE ParseStore(file)

\* the loop over the learned corrections, a learned entry written over a key
\* that is there
RECURSIVE MergeLearnedOverwriting(_, _, _)
MergeLearnedOverwriting(gazetteer, learned, i) ==
    IF i = 0 THEN gazetteer
    ELSE LET g == MergeLearnedOverwriting(gazetteer, learned, i - 1)
             misspelling == learned[i][1]
             correct == learned[i][2].correct
         IN IF correct # <<>> THEN Put(g, misspelling, correct) ELSE g

\* the loop over the learned corrections (lines 168-171)
RECURSIVE MergeLearned(_, _, _)
MergeLearned(gazetteer, learned, i) ==
    IF i = 0 THEN gazetteer
    ELSE LET g == MergeLearned(gazetteer, learned, i - 1)
             misspelling == learned[i][1]
             correct == learned[i][2].correct
         IN IF correct # <<>> /\ ~Has(g, misspelling)
            THEN Put(g, misspelling, correct)
            ELSE g

\* if labels: a missing or empty labels object is skipped (line 162)
Truthy(labels) == labels # NoLabels /\ labels # EmptyLabels

\* build_gazetteer(labels, include_learned)  (lines 141-173)
build_gazetteer(labels, include_learned, file) ==
    LET names == IF Truthy(labels) THEN extract_names_from_labels(labels)
                 ELSE <<>>
    IN IF include_learned
       THEN LET learned == load_learned_corrections(file) IN
            MergeLearned(names, learned, Len(learned))
       ELSE names

---------------------------------------------------------------------------
(* pipeline/config.py: the matcher's weights and thresholds *)

\* 0.45, 0.40, 0.15
FUZZY_WEIGHT == Rat(45, 100)
PHONETIC_WEIGHT == Rat(40, 100)
CONTEXT_WEIGHT == Rat(15, 100)

\* a threshold of 40 whatever the length
LowThreshold(entity_text) == 40

\* get_fuzzy_threshold(entity_text)  (lines 69-77)
get_fuzzy_threshold(entity_text) ==
    LET length == Len(entity_text) IN
    IF length <= 4 THEN 48
    ELSE IF length <= 8 THEN 55
    ELSE 55

---------------------------------------------------------------------------
(* pipeline/fuzzy_corrector.py *)

\* lines 30-50
COMMON_WORDS_EXCLUDE ==
    { <<"t", "a", "r", "g", "e", "t">>,
      <<"d", "a", "n">>,
      <<"d", "a", "v", "i", "e", "s">>,
      <<"w", "i", "l", "l">>,
      <<"y", "o", "u", "n", "g">>,
      <<"l", "o", "n", "g">>,
      <<"w", "a", "r", "d">>,
      <<"a", "l", "l", "e", "n">>,
      <<"p", "a", "u", "l">>,
      <<"m", "a", "r", "k">>,
      <<"j", "o", "n", "e", "s">>,
      <<"p", "a", "r", "k", "e", "r">>,
      <<"w", "a", "l", "k", "e", "r">>,
      <<"k", "e", "n", "n", "e", "d", "y">>,
      <<"m", "a", "r", "t", "i", "n">>,
      <<"a", "l", "e", "x">>,
      <<"j", "a", "c", "k">>,
      <<"j", "o", "e">>,
      <<"t", "o", "m">>,
      <<"n", "i", "c", "k">>,
      <<"m", "i", "k", "e">>,
      <<"j", "o", "h", "n">>,
      <<"j", "a", "m", "e", "s">>,
      <<"r", "y", "a", "n">>,
      <<"a", "d", "a", "m">>,
      <<"b", "e", "n">>,
      <<"s", "a", "m">>,
      <<"m", "a", "t", "t">>,
      <<"c", "h", "r", "i", "s">>,
      <<"l", "e", "e">>,
      <<"t", "o", "n", "y">>,
      <<"g", "a", "r", "y">>,
      <<"s", "t", "e", "v", "e", "n">>,
      <<"f", "r", "a", "n", "k">>,
      <<"h", "e", "n", "r", "y">>,
      <<"b", "a", "r", "r", "y">>,
      <<"t", "e", "r", "r", "y">>,
      <<"w", "a", "y", "n", "e">>,
      <<"d", "e", "a", "n">>,
      <<"c", "a", "r", "l">>,
      <<"d", "a", "v", "e">>,
      <<"r", "o", "b">>,
      <<"p", "h", "i", "l">>,
      <<"g", "o", "r", "d", "o", "n">>,
      <<"j", "o", "s", "e">>,
      <<"d", "i", "e", "g", "o">>,
      <<"a", "l", "a", "n">>,
      <<"s", "c", "o", "t", "t">>,
      <<"k", "u", "r", "t">>,
      <<"a", "d", "r", "i", "a", "n">>,
      <<"p", "e", "d", "r", "o">>,
      <<"w", "i", "l", "l", "i", "a", "m">>,
      <<"b", "i", "a">>,
      <<"k", "a", "e", "l">>,
      <<"c", "o", "r", "n", "e", "r">>,
      <<"c", "r", "o", "s", "s">>,
      <<"h", "e", "a", "d", "e", "r">>,
      <<"p", "a", "s", "s">>,
      <<"s", "h", "o", "t">>,
      <<"g", "o", "a", "l">>,
      <<"f", "o", "u", "l">>,
      <<"b", "a", "l", "l">>,
      <<"m", "a", "t", "c", "h">>,
      <<"k", "i", "c", "k">>,
      <<"p", "l", "a", "y">>,
      <<"s", "i", "d", "e">>,
      <<"t", "e", "a", "m">>,
      <<"h", "a", "l", "f">>,
      <<"f", "r", "e", "e">>,
      <<"t", "h", "r", "o", "w">>,
      <<"c", "a", "r", "d">>,
      <<"y", "e", "l", "l", "o", "w">>,
      <<"r", "e", "d">>,
      <<"p", "e", "n", "a", "l", "t", "y">>,
      <<"m", "a", "n", "a", "g", "e", "r">>,
      <<"r", "e", "f", "e", "r", "e", "e">>,
      <<"s", "t", "r", "i", "k", "e", "r">>,
      <<"k", "e", "e", "p", "e", "r">>,
      <<"d", "e", "f", "e", "n", "d", "e", "r">>,
      <<"p", "o", "o", "r">>,
      <<"p", "o", "u", "r", "e", "d">>,
      <<"p", "u", "n", "c", "h">>,
      <<"w", "a", "l", "l">>,
      <<"k", "a", "l", "e">>,
      <<"k", "y", "l", "e">>,
      <<"c", "h", "i", "l", "e">>,
      <<"m", "a", "r", "i", "n", "o">>,
      <<"f", "a", "l", "c", "o">>,
      <<"p", "e", "l", "e">>,
      <<"s", "t", "a", "m", "f", "o", "r", "d", " ", "b", "r", "i", "d", "g", "e">> }

\* the characters stripped from the ends of an entity: ".,!?;:"
PUNCTUATION == {".", ",", "!", "?", ";", ":"}

\* the possessive endings "'s" and "’s"
IsPossessive(s) == endswith(s, <<"'", "s">>) \/ endswith(s, <<RightQuote, "s">>)

\* trailing_possessive: s[-2:] of a possessive, else ""
TrailingPossessive(s) ==
    IF IsPossessive(s) THEN SubSeq(s, Len(s) - 1, Len(s)) ELSE <<>>

\* s[:-2] of a possessive, else s
StripPossessive(s) ==
    IF IsPossessive(s) THEN SubSeq(s, 1, Len(s) - 2) ELSE s

\* while s and s[-1] in ".,!?;:": s = s[:-1]
RECURSIVE StripTrailingPunct(_)
StripTrailingPunct(s) ==
    IF s # <<>> /\ s[Len(s)] \in PUNCTUATION
    THEN StripTrailingPunct(SubSeq(s, 1, Len(s) - 1))
    ELSE s

\* while s and s[0] in ".,!?;:": s = s[1:]
RECURSIVE StripLeadingPunct(_)
StripLeadingPunct(s) ==
    IF s # <<>> /\ Head(s) \in PUNCTUATION
    THEN StripLeadingPunct(Tail(s))
    ELSE s

\* entity_clean as find_best_match computes it (lines 175-189)
EntityClean(entity_text) ==
    StripLeadingPunct(StripTrailingPunct(StripPossessive(strip(entity_text))))

\* jellyfish.metaphone(s), jellyfish.soundex(s): the codes the library gives,
\* which do not depend on the case of s
metaphone(s) == jellyfish.metaphone[lower(s)]
soundex(s) == jellyfish.soundex[lower(s)]

\* compute_phonetic_score as its docstring has it: 50 for a partial match
PhoneticScoreHalf(entity, candidate) ==
    IF jellyfish.raises = "metaphone" THEN RatInt(0)
    ELSE LET entity_code == metaphone(entity)
             candidate_code == metaphone(candidate)
         IN IF entity_code = candidate_code THEN RatInt(100)
            ELSE IF startswith(entity_code, candidate_code)
                    \/ startswith(candidate_code, entity_code)
            THEN RatInt(50)
            ELSE IF jellyfish.raises = "soundex" THEN RatInt(0)
            ELSE IF soundex(entity) = soundex(candidate) THEN RatInt(50)
            ELSE RatInt(0)

\* compute_phonetic_score(entity, candidate)  (lines 66-103); a call of the
\* library that raises is caught (lines 98-99, 102-103)
compute_phonetic_score(entity, candidate) ==
    IF jellyfish.raises = "metaphone" THEN RatInt(0)
    ELSE LET entity_code == metaphone(entity)
             candidate_code == metaphone(candidate)
         IN IF entity_code = candidate_code THEN RatInt(100)
            ELSE IF startswith(entity_code, candidate_code)
                    \/ startswith(candidate_code, entity_code)
            THEN RatInt(75)
            ELSE IF jellyfish.raises = "soundex" THEN RatInt(0)
            ELSE IF soundex(entity) = soundex(candidate) THEN RatInt(75)
            ELSE RatInt(0)

\* context_names = None
NoContext == {}

\* the weighted sum and the record compute_combined_score returns
\* (lines 131-150)
CombinedScore(fuzzy_score, phonetic_score, context_match) ==
    [combined |->
         RatAdd(RatAdd(RatMul(FUZZY_WEIGHT, fuzzy_score),
                       RatMul(PHONETIC_WEIGHT, phonetic_score)),
                RatMul(CONTEXT_WEIGHT,
                       IF context_match THEN RatInt(100) ELSE RatInt(0))),
     fuzzy_score |-> fuzzy_score,
     phonetic_match |-> RatGeq(phonetic_score, RatInt(50)),
     context_match |-> context_match]

\* compute_combined_score(entity_text, candidate, context_names)
\* (lines 106-150)
compute_combined_score(entity_text, candidate, context_names) ==
    CombinedScore(token_sort_ratio(lower(entity_text), lower(candidate)),
                  compute_phonetic_score(entity_text, candidate),
                  context_names \cap {candidate} # {})

\* the decimal digits of a natural number
RECURSIVE Decimal(_)
Decimal(n) ==
    IF n < 10 THEN << Digits[n + 1] >>
    ELSE Append(Decimal(n \div 10), Digits[(n % 10) + 1])

\* f"{r:.0f}" of a score r >= 0: the nearest integer, a tie to the even one
RoundHalfEven(r) ==
    LET q == r.num \div r.den
        rem == r.num % r.den
    IN IF 2 * rem > r.den THEN q + 1
       ELSE IF 2 * rem < r.den THEN q
       ELSE IF q % 2 = 0 THEN q ELSE q + 1

\* _describe_method(fuzzy_score, phonetic, context)  (lines 337-344)
describe_method(fuzzy_score, phonetic, context) ==
    <<"f", "u", "z", "z", "y", "(">> \o Decimal(RoundHalfEven(fuzzy_score)) \o <<")">>
       \o (IF phonetic THEN <<"+", "p", "h", "o", "n", "e", "t", "i", "c">>
           ELSE <<>>)
       \o (IF context THEN <<"+", "c", "o", "n", "t", "e", "x", "t">>
           ELSE <<>>)

\* limit=5 (line 218)
CANDIDATE_LIMIT == 5

\* The ranking of process.extract: by score, highest first, equal scores in
\* the order of the choices.
RECURSIVE InsertRanked(_, _)
InsertRanked(item, ranked) ==
    IF ranked = <<>> THEN <<item>>
    ELSE IF RatGt(item.score, Head(ranked).score) THEN <<item>> \o ranked
    ELSE <<Head(ranked)>> \o InsertRanked(item, Tail(ranked))

RECURSIVE Ranked(_, _, _)
Ranked(query, choices, i) ==
    IF i = 0 THEN <<>>
    ELSE LET rest == Ranked(query, choices, i - 1) IN
         \* a later choice of equal score goes behind the earlier ones
         LET item == [choice |-> choices[i],
                      score |-> token_sort_ratio(query, choices[i]),
                      index |-> i - 1]
         IN InsertRanked(item, rest)

\* process.extract(query, choices, scorer=fuzz.token_sort_ratio, limit=limit)
\* (lines 214-219)
extract(query, choices, limit) ==
    LET ranked == Ranked(query, choices, Len(choices)) IN
    SubSeq(ranked, 1, Min(limit, Len(ranked)))

\* find_best_match returning None
NoCorrection == [none |-> TRUE]

\* the replacement is the canonical name whatever the input
ReplacementCanonical(entity_clean, candidate_text, canonical) == canonical

\* corrected_name: the replacement at the "level" of the input
\* (lines 241-251)
ReplacementForm(entity_clean, candidate_text, canonical) ==
    IF Len(split(entity_clean)) = 1
    THEN IF \A i \in 1..Len(candidate_text) : candidate_text[i] # " "
         THEN candidate_text
         ELSE LET words == split(canonical) IN words[Len(words)]
    ELSE canonical

\* the body of the scoring loop, a candidate that scores as high as the best
\* so far taking its place
KeepLatest(best, entity_clean, candidate_text, canonical, c) ==
    IF RatGeq(c.combined, best.best_score)
    THEN [best_score |-> c.combined,
          best_correction |->
             Correction(entity_clean,
                        ReplacementForm(entity_clean, candidate_text, canonical),
                        c.combined, c.fuzzy_score, c.phonetic_match,
                        c.context_match, <<>>,
                        describe_method(c.fuzzy_score, c.phonetic_match,
                                        c.context_match))]
    ELSE best

\* the body of the scoring loop once the candidate is scored (lines 233-262)
KeepBest(best, entity_clean, candidate_text, canonical, c) ==
    IF RatGt(c.combined, best.best_score)
    THEN [best_score |-> c.combined,
          best_correction |->
             Correction(entity_clean,
                        ReplacementForm(entity_clean, candidate_text, canonical),
                        c.combined, c.fuzzy_score, c.phonetic_match,
                        c.context_match, <<>>,
                        describe_method(c.fuzzy_score, c.phonetic_match,
                                        c.context_match))]
    ELSE best

\* one iteration of the scoring loop (lines 228-262)
ScoreCandidate(best, entity_clean, candidate_text, gazetteer, context_names) ==
    KeepBest(best, entity_clean, candidate_text,
             Get(gazetteer, candidate_text),
             compute_combined_score(entity_clean, candidate_text, context_names))

RECURSIVE ScoreCandidates(_, _, _, _, _)
ScoreCandidates(entity_clean, top_candidates, i, gazetteer, context_names) ==
    IF i = 0
    THEN [best_score |-> RatInt(0), best_correction |-> NoCorrection]
    ELSE ScoreCandidate(
             ScoreCandidates(entity_clean, top_candidates, i - 1, gazetteer,
                             context_names),
             entity_clean, top_candidates[i].choice, gazetteer, context_names)

\* no key is taken for the entity in another case
NoLowercaseMatch(entity_clean, gazetteer) == FALSE

\* the entity is a key of the gazetteer in some case (lines 207-210)
LowercaseMatches(entity_clean, gazetteer) ==
    \E i \in 1..Len(gazetteer) : lower(gazetteer[i][1]) = lower(entity_clean)

\* step 2, the scoring of the candidates (lines 225-262)
BestOf(entity_clean, top_candidates, gazetteer, context_names) ==
    ScoreCandidates(entity_clean, top_candidates, Len(top_candidates),
                    gazetteer, context_names)

\* step 3, the adaptive threshold (lines 265-270)
AboveThreshold(best, entity_clean) ==
    IF best.best_correction # NoCorrection
          /\ RatGeq(best.best_score, RatInt(get_fuzzy_threshold(entity_clean)))
    THEN best.best_correction
    ELSE NoCorrection

\* no word is taken for a common English word
NoCommonWord(entity_clean) == FALSE

\* entity_clean.lower() in COMMON_WORDS_EXCLUDE (line 195)
IsCommonWord(entity_clean) == lower(entity_clean) \in COMMON_WORDS_EXCLUDE

\* find_best_match from the cleaned entity on (lines 191-270)
MatchClean(entity_clean, gazetteer, context_names) ==
    IF entity_clean = <<>> THEN NoCorrection
    ELSE IF IsCommonWord(entity_clean) THEN NoCorrection
    ELSE IF Len(entity_clean) <= 2 THEN NoCorrection
    ELSE IF Has(gazetteer, entity_clean) THEN NoCorrection
    ELSE IF LowercaseMatches(entity_clean, gazetteer) THEN NoCorrection
    ELSE AboveThreshold(
             BestOf(entity_clean,
                    extract(entity_clean, Keys(gazetteer), CANDIDATE_LIMIT),
                    gazetteer, context_names),
             entity_clean)

\* find_best_match(entity_text, gazetteer, context_names)  (lines 153-270)
find_best_match(entity_text, gazetteer, context_names) ==
    IF entity_text = <<>> \/ gazetteer = <<>> THEN NoCorrection
    ELSE MatchClean(EntityClean(entity_text), gazetteer, context_names)

\* s[n:]
Suffix(s, n) == SubSeq(s, Min(n, Len(s)) + 1, Len(s))

\* sorted(entities, key=lambda e: e.start_char, reverse=True): entities of
\* equal start stay in their order
RECURSIVE InsertByStart(_, _)
InsertByStart(entity, sortedEntities) ==
    IF sortedEntities = <<>> THEN <<entity>>
    ELSE IF entity.start_char > Head(sortedEntities).start_char
    THEN <<entity>> \o sortedEntities
    ELSE <<Head(sortedEntities)>> \o InsertByStart(entity, Tail(sortedEntities))

RECURSIVE SortedByStartReversed(_, _)
SortedByStartReversed(entities, i) ==
    IF i = 0 THEN <<>>
    ELSE InsertByStart(entities[i], SortedByStartReversed(entities, i - 1))

\* the punctuation stripped from the end of s, in its order (lines 317-320)
TrailingPunct(s) == Suffix(s, Len(StripTrailingPunct(s)))

\* the punctuation stripped from the start of s (lines 321-324)
LeadingPunct(s) == Prefix(s, Len(s) - Len(StripLeadingPunct(s)))

\* replacement: the corrected name with what was attached to the entity
\* put back (lines 308-327)
Replacement(entity_text, corrected) ==
    LET original_text == strip(entity_text)
        temp == StripPossessive(original_text)
    IN LeadingPunct(StripTrailingPunct(temp)) \o corrected
          \o TrailingPunct(temp) \o TrailingPossessive(original_text)

\* the body of the loop over the sorted entities once find_best_match has
\* returned (lines 304-332)
ApplyMatch(st, entity, match, segment_id) ==
    IF match # NoCorrection
    THEN [corrected_text |->
              Prefix(st.corrected_text, entity.start_char)
                 \o Replacement(entity.text, match.corrected)
                 \o Suffix(st.corrected_text, entity.end_char),
          corrections |->
              Append(st.corrections, [match EXCEPT !.segment_id = segment_id])]
    ELSE st

\* one iteration of the loop over the sorted entities (lines 302-332)
CorrectEntity(st, entity, gazetteer, segment_id, context_names) ==
    ApplyMatch(st, entity,
               find_best_match(entity.text, gazetteer, context_names),
               segment_id)

RECURSIVE CorrectEntities(_, _, _, _, _, _)
CorrectEntities(text, sorted_entities, i, gazetteer, segment_id, context_names) ==
    IF i = 0 THEN [corrected_text |-> text, corrections |-> <<>>]
    ELSE CorrectEntity(
             CorrectEntities(text, sorted_entities, i - 1, gazetteer,
                             segment_id, context_names),
             sorted_entities[i], gazetteer, segment_id, context_names)

\* the loop over the entities, sorted (lines 302-334)
CorrectSorted(text, sorted_entities, gazetteer, segment_id, context_names) ==
    CorrectEntities(text, sorted_entities, Len(sorted_entities), gazetteer,
                    segment_id, context_names)

\* correct_segment_text(text, entities, gazetteer, segment_id, context_names)
\* (lines 273-334)
correct_segment_text(text, entities, gazetteer, segment_id, context_names) ==
    CorrectSorted(text, SortedByStartReversed(entities, Len(entities)),
                  gazetteer, segment_id, context_names)

---------------------------------------------------------------------------
(* pipeline/hallucination_filter.py *)

\* 0.70
HALLUCINATION_MIN_ALPHA_RATIO == Rat(70, 100)

MIN_SEGMENT_WORD_COUNT == 2

\* is_likely_english asks the detector from this many words on (line 77)
LANGDETECT_MIN_WORDS == 8

\* the characters of the model that NON_LATIN_PATTERN matches (lines 26-34)
NonLatin == {CJK}

\* c.isascii() and c.isalpha()
AsciiAlpha ==
    {UpperCase[i] : i \in 1..Len(UpperCase)}
       \cup {LowerCase[i] : i \in 1..Len(LowerCase)}

\* sum(1 for c in text if <c in chars>)
Count(text, chars) == Cardinality({i \in 1..Len(text) : text[i] \in chars})

\* compute_alpha_ratio(text)  (lines 37-57)
compute_alpha_ratio(text) ==
    IF text = <<>> THEN RatInt(0)
    ELSE LET alpha_count == Count(text, AsciiAlpha)
             content_chars == Len(text) - Count(text, Whitespace)
         IN IF content_chars = 0 THEN RatInt(0)
            ELSE Rat(alpha_count, content_chars)

\* has_non_latin_characters(text)  (lines 60-62)
has_non_latin_characters(text) == Count(text, NonLatin) > 0

\* is_likely_english(text)  (lines 65-86): langdetect is "missing" when the
\* library is not installed, "raises" when detection fails, else the
\* language it reports
is_likely_english(text) ==
    IF langdetect = "missing" THEN TRUE
    ELSE IF Len(split(text)) < LANGDETECT_MIN_WORDS THEN TRUE
    ELSE IF langdetect = "raises" THEN TRUE
    ELSE langdetect \in {"en", "sco", "cy"}

\* a ratio in hundredths as f"{r:.2f}" shows it
Hundredths(r) == RoundHalfEven(RatMul(r, RatInt(100)))

\* the reason of a rejection: the rule and the number shown with it
Reason(rule, shown) == [rule |-> rule, shown |-> shown]

\* reason = None
NoReason == Reason("None", 0)

\* filter_segment with the word count looked at before the script and the
\* alpha ratio
WordsFirst(segment) ==
    LET text == strip(segment.text)
        alpha_ratio == compute_alpha_ratio(text)
        word_count == Len(split(text))
    IN IF text = <<>>
       THEN [is_valid |-> FALSE, reason |-> Reason("empty_segment", 0)]
       ELSE IF word_count < MIN_SEGMENT_WORD_COUNT
       THEN [is_valid |-> FALSE, reason |-> Reason("too_few_words", word_count)]
       ELSE IF has_non_latin_characters(text)
       THEN [is_valid |-> FALSE, reason |-> Reason("non_latin_characters", 0)]
       ELSE IF RatGt(HALLUCINATION_MIN_ALPHA_RATIO, alpha_ratio)
       THEN [is_valid |-> FALSE,
             reason |-> Reason("low_alpha_ratio", Hundredths(alpha_ratio))]
       ELSE IF ~is_likely_english(text)
       THEN [is_valid |-> FALSE, reason |-> Reason("non_english_detected", 0)]
       ELSE [is_valid |-> TRUE, reason |-> NoReason]

\* filter_segment(segment)  (lines 89-126)
filter_segment(segment) ==
    LET text == strip(segment.text)
        alpha_ratio == compute_alpha_ratio(text)
        word_count == Len(split(text))
    IN IF text = <<>>
       THEN [is_valid |-> FALSE, reason |-> Reason("empty_segment", 0)]
       ELSE IF has_non_latin_characters(text)
       THEN [is_valid |-> FALSE, reason |-> Reason("non_latin_characters", 0)]
       ELSE IF RatGt(HALLUCINATION_MIN_ALPHA_RATIO, alpha_ratio)
       THEN [is_valid |-> FALSE,
             reason |-> Reason("low_alpha_ratio", Hundredths(alpha_ratio))]
       ELSE IF word_count < MIN_SEGMENT_WORD_COUNT
       THEN [is_valid |-> FALSE, reason |-> Reason("too_few_words", word_count)]
       ELSE IF ~is_likely_english(text)
       THEN [is_valid |-> FALSE, reason |-> Reason("non_english_detected", 0)]
       ELSE [is_valid |-> TRUE, reason |-> NoReason]

\* the loop body with a kept segment put before the ones kept so far
FilterStepPrepending(st, seg) ==
    LET f == filter_segment(seg) IN
    IF f.is_valid
    THEN [st EXCEPT !.kept = <<seg>> \o @]
    ELSE [st EXCEPT !.removed =
             Append(@, [segment_id |-> seg.segment_id,
                        half |-> seg.half,
                        start_time |-> seg.start_time,
                        text |-> Prefix(seg.text, REMOVED_TEXT_CHARS),
                        reason |-> f.reason])]

\* one iteration of the loop of filter_segments (lines 144-155)
FilterStep(st, seg) ==
    LET f == filter_segment(seg) IN
    IF f.is_valid
    THEN [st EXCEPT !.kept = Append(@, seg)]
    ELSE [st EXCEPT !.removed =
             Append(@, [segment_id |-> seg.segment_id,
                        half |-> seg.half,
                        start_time |-> seg.start_time,
                        text |-> Prefix(seg.text, REMOVED_TEXT_CHARS),
                        reason |-> f.reason])]

RECURSIVE FilterLoop(_, _)
FilterLoop(segs, i) ==
    IF i = 0 THEN [kept |-> <<>>, removed |-> <<>>]
    ELSE FilterStep(FilterLoop(segs, i - 1), segs[i])

\* filter_segments(segments)  (lines 129-157)
filter_segments(segs) == FilterLoop(segs, Len(segs))

---------------------------------------------------------------------------
(* pipeline/ner_extractor.py, pipeline/orchestrator.py *)

DetectedEntity(text, label, start_char, end_char, source) ==
    [text |-> text, label |-> label, start_char |-> start_char,
     end_char |-> end_char, source |-> source]

\* extract_entities(segment)  (ner_extractor.py lines 138-185): the entities
\* the detectors find in the stripped text, their offsets counted in it
extract_entities(segment) ==
    LET text == strip(segment.text) IN
    IF text = <<>> THEN <<>> ELSE ner[text]

\* str.replace(old, new): every occurrence of old, from the left
RECURSIVE replace(_, _, _)
replace(s, old, new) ==
    IF old = <<>>
    THEN new \o (IF s = <<>> THEN <<>>
                 ELSE <<Head(s)>> \o replace(Tail(s), old, new))
    ELSE IF Len(s) < Len(old) THEN s
    ELSE IF startswith(s, old)
    THEN new \o replace(Suffix(s, Len(old)), old, new)
    ELSE <<Head(s)>> \o replace(Tail(s), old, new)

\* " " in s
HasSpace(s) == \E i \in 1..Len(s) : s[i] = " "

\* method="learned_dictionary"
LEARNED_METHOD ==
    <<"l", "e", "a", "r", "n", "e", "d", "_", "d", "i", "c", "t", "i",
       "o", "n", "a", "r", "y">>

\* the body of the loop over the entities once lookup_learned has returned
\* a correction (lines 126-150)
ApplyLearned(st, entity, entity_text, trailing_possessive, learned_correction, seg) ==
    LET corrected_name ==
            IF Len(split(entity_text)) = 1 /\ HasSpace(learned_correction)
            THEN LET words == split(learned_correction) IN words[Len(words)]
            ELSE learned_correction
    IN [text |-> replace(st.text, entity.text,
                         corrected_name \o trailing_possessive),
        corrections |->
            Append(st.corrections,
                   Correction(entity.text, corrected_name, RatInt(100),
                              RatInt(100), TRUE, FALSE, seg.segment_id,
                              LEARNED_METHOD)),
        learned_applied |-> TRUE]

\* the body of the loop over the entities from the lookup on (lines 115-150)
LookUpEntity(st, entity, entity_text, trailing_possessive, learned_correction, seg) ==
    IF entity_text = <<>> THEN st
    ELSE IF lower(entity_text) \in COMMON_WORDS_EXCLUDE THEN st
    ELSE IF Len(strip(entity_text)) <= 2 THEN st
    ELSE IF learned_correction = None \/ learned_correction = <<>> THEN st
    ELSE ApplyLearned(st, entity, entity_text, trailing_possessive,
                      learned_correction, seg)

\* the text looked up: the entity without possessive and trailing
\* punctuation (lines 103-113)
LookupText(entity) == StripTrailingPunct(StripPossessive(strip(entity.text)))

\* one iteration of the loop over the entities that asks the learned
\* dictionary (lines 102-150)
LearnedEntity(st, entity, seg, file) ==
    LookUpEntity(st, entity, LookupText(entity),
                 TrailingPossessive(strip(entity.text)),
                 lookup_learned(file, LookupText(entity)).result, seg)

RECURSIVE LearnedEntities(_, _, _, _)
LearnedEntities(seg, entities, i, file) ==
    IF i = 0
    THEN [text |-> seg.text, corrections |-> <<>>, learned_applied |-> FALSE]
    ELSE LearnedEntity(LearnedEntities(seg, entities, i - 1, file),
                       entities[i], seg, file)

\* the end of the loop body: the fuzzy matcher runs if the learned
\* dictionary applied nothing (lines 153-169)
AfterLearned(seg, entities, learned, gazetteer) ==
    IF entities # <<>> /\ ~learned.learned_applied
    THEN LET fuzzy == correct_segment_text(learned.text, entities, gazetteer,
                                           seg.segment_id, NoContext)
         IN [text |-> fuzzy.corrected_text,
             corrections |-> learned.corrections \o fuzzy.corrections]
    ELSE [text |-> learned.text, corrections |-> learned.corrections]

\* the loop body for a segment with its entities detected (lines 101-169)
CorrectDetected(seg, entities, gazetteer, file) ==
    AfterLearned(seg, entities,
                 LearnedEntities(seg, entities, Len(entities), file), gazetteer)

\* the segment appended to corrected_segments (lines 163-169) and the
\* corrections added to all_corrections
Corrected(seg, entities, result) ==
    [segment |-> Segment(seg.segment_id, seg.start_time, seg.end_time,
                         result.text, seg.half),
     corrections |-> result.corrections,
     entities |-> Len(entities)]

\* one iteration of the loop over the deduplicated segments (lines 92-169)
CorrectSegment(seg, gazetteer, file) ==
    Corrected(seg, extract_entities(seg),
              CorrectDetected(seg, extract_entities(seg), gazetteer, file))

\* round(r, 1): the nearest tenth, a tie to the even one
RoundTenth(r) == Rat(RoundHalfEven(RatMul(r, RatInt(10))), 10)

\* the segments of one half
RECURSIVE HalfSegments(_, _)
HalfSegments(segs, half_num) ==
    IF segs = <<>> THEN <<>>
    ELSE IF Head(segs).half = half_num
    THEN <<Head(segs)>> \o HalfSegments(Tail(segs), half_num)
    ELSE HalfSegments(Tail(segs), half_num)

\* {s.segment_id: [s.start_time, s.end_time, s.text] for s in half_segments}
RECURSIVE SegmentDict(_, _)
SegmentDict(half_segments, i) ==
    IF i = 0 THEN <<>>
    ELSE LET seg == half_segments[i] IN
         Put(SegmentDict(half_segments, i - 1), seg.segment_id,
             << seg.start_time, seg.end_time, seg.text >>)

\* the corrections listed in the file of one half (lines 237-248)
RECURSIVE HalfCorrections(_, _, _)
HalfCorrections(corrections, segs, half_num) ==
    IF corrections = <<>> THEN <<>>
    ELSE LET c == Head(corrections)
             rest == HalfCorrections(Tail(corrections), segs, half_num)
         IN IF \E i \in 1..Len(segs) :
                   segs[i].segment_id = c.segment_id /\ segs[i].half = half_num
            THEN << [segment_id |-> c.segment_id, original |-> c.original,
                     corrected |-> c.corrected,
                     score |-> RoundTenth(c.combined_score),
                     method |-> c.method] >> \o rest
            ELSE rest

\* a cleaned output file that was never written
NoOutput == [exists |-> FALSE]

\* _write_cleaned_output: the file of one half as the call leaves it; a
\* half without segments is skipped (lines 221-254)
WriteHalf(file, input, segs, corrections, half_num) ==
    LET half_segments == HalfSegments(segs, half_num) IN
    IF half_segments = <<>> THEN file
    ELSE [exists |-> TRUE,
          segments |-> SegmentDict(half_segments, Len(half_segments)),
          original_segment_count |-> Len(HalfSegments(input, half_num)),
          cleaned_segment_count |-> Len(half_segments),
          corrections |-> HalfCorrections(corrections, segs, half_num)]

\* _write_cleaned_output(match, segments, corrections, ...)  (lines 207-256)
write_cleaned_output(files, input, segs, corrections) ==
    [half_num \in {1, 2} |->
        WriteHalf(files[half_num], input, segs, corrections, half_num)]

---------------------------------------------------------------------------
(* Names *)

Zuma == <<"Z", "u", "m", "a">>
zuma == <<"z", "u", "m", "a">>
ZUMA == <<"Z", "U", "M", "A">>
Zouma == <<"Z", "o", "u", "m", "a">>
Boney == <<"B", "o", "n", "e", "y">>
Bony == <<"B", "o", "n", "y">>
Turi == <<"T", "u", "r", "i">>

KurtZouma == <<"K", "u", "r", "t", " ", "Z", "o", "u", "m", "a">>
KurtZuma == <<"K", "u", "r", "t", " ", "Z", "u", "m", "a">>
Kurd == <<"K", "u", "r", "d">>
Dan == <<"D", "a", "n">>
Dann == <<"D", "a", "n", "n">>
Zuuma == <<"Z", "u", "u", "m", "a">>
Zumma == <<"Z", "u", "m", "m", "a">>
Robert == <<"R", "o", "b", "e", "r", "t">>
Rupert == <<"R", "u", "p", "e", "r", "t">>

\* "Zuma's"
ZumaPossessive == Zuma \o <<"'", "s">>

\* transcript texts
ZumaShootsWide ==
    <<"Z", "u", "m", "a", " ", "s", "h", "o", "o", "t", "s", " ", "w", "i",
    "d", "e">>
BoneyFindsZuma ==
    <<"B", "o", "n", "e", "y", " ", "f", "i", "n", "d", "s", " ", "Z", "u",
    "m", "a">>
Ok == <<"o", "k">>

---------------------------------------------------------------------------
(* The libraries *)

\* The codes jellyfish gives the names of the model, and which of its two
\* encoders raises ("no": neither).
Jellyfish(raises) ==
    [raises |-> raises,
     metaphone |->
        [name \in {lower(Zuma), lower(Zouma), lower(KurtZouma), lower(Bony),
                   lower(Boney), lower(Turi), lower(KurtZuma), lower(Kurd),
                   lower(Dan), lower(Dann), lower(ZumaPossessive),
                   lower(Zuuma), lower(Zumma), lower(Robert),
                   lower(Rupert)} |->
            CASE name \in {lower(Zuma), lower(Zouma), lower(Zuuma), lower(Zumma)} ->
                    <<"S", "M">>
              [] name \in {lower(KurtZouma), lower(KurtZuma)} ->
                    <<"K", "R", "T", " ", "S", "M">>
              [] name \in {lower(Bony), lower(Boney)} -> <<"B", "N">>
              [] name = lower(Turi) -> <<"T", "R">>
              [] name = lower(Kurd) -> <<"K", "R", "T">>
              [] name \in {lower(Dan), lower(Dann)} -> <<"T", "N">>
              [] name = lower(ZumaPossessive) -> <<"S", "M", "S">>
              [] name = lower(Robert) -> <<"R", "B", "R", "T">>
              [] name = lower(Rupert) -> <<"R", "P", "R", "T">>],
     soundex |->
        [name \in {lower(Zuma), lower(Zouma), lower(KurtZouma), lower(Bony),
                   lower(Boney), lower(Turi), lower(KurtZuma), lower(Kurd),
                   lower(Dan), lower(Dann), lower(ZumaPossessive),
                   lower(Zuuma), lower(Zumma), lower(Robert),
                   lower(Rupert)} |->
            CASE name \in {lower(Zuma), lower(Zouma), lower(Zuuma), lower(Zumma)} ->
                    <<"Z", "5", "0", "0">>
              [] name \in {lower(KurtZouma), lower(KurtZuma)} ->
                    <<"K", "6", "3", "2">>
              [] name \in {lower(Bony), lower(Boney)} -> <<"B", "5", "0", "0">>
              [] name = lower(Turi) -> <<"T", "6", "0", "0">>
              [] name = lower(Kurd) -> <<"K", "6", "3", "0">>
              [] name \in {lower(Dan), lower(Dann)} -> <<"D", "5", "0", "0">>
              [] name = lower(ZumaPossessive) -> <<"Z", "5", "2", "0">>
              [] name \in {lower(Robert), lower(Rupert)} ->
                    <<"R", "1", "6", "3">>]]

\* The entities the detectors find in the texts of the model
Detections ==
    [text \in {ZumaShootsWide, BoneyFindsZuma, Ok} |->
        CASE text = ZumaShootsWide ->
                << DetectedEntity(Zuma, "PERSON", 0, 4, "spacy") >>
          [] text = BoneyFindsZuma ->
                << DetectedEntity(Boney, "PERSON", 0, 5, "spacy"),
                   DetectedEntity(Zuma, "PERSON", 12, 16, "spacy") >>
          [] text = Ok -> <<>>]

\* the libraries as every specification finds them
Libraries ==
    /\ jellyfish = Jellyfish("no")
    /\ ner = Detections
    /\ langdetect = "en"

\* the locals of clean_match before it has run
NoLocals ==
    [gazetteer |-> <<>>, valid_segments |-> <<>>,
     removed_hallucinations |-> <<>>, deduped_segments |-> <<>>,
     removed_duplicates |-> <<>>, all_corrections |-> <<>>,
     corrected_segments |-> <<>>, total_entities |-> 0]

\* clean_match's variables when it is not run
PipelineIdle ==
    /\ match_data = [segments |-> <<>>, labels |-> NoLabels]
    /\ dry_run = FALSE
    /\ pc = "off"
    /\ cm = NoLocals
    /\ output_files = [half_num \in {1, 2} |-> NoOutput]
    /\ runs = 0

\* no single call of a function is made
FunctionsIdle ==
    /\ fc = [pc |-> "off"]
    /\ hf = [pc |-> "off"]
    /\ gz = [pc |-> "off"]
    /\ upd = [pc |-> "off"]

---------------------------------------------------------------------------
(* The learned dictionary before any call *)

\* the keys a correction of the model can be recorded under
LearnedKeys == {lower(Zuma), lower(Boney)}

NothingRecorded ==
    [k \in LearnedKeys |-> [count |-> 0, total |-> RatInt(0), first |-> None]]

LearnedInit ==
    /\ store_file = NoFile
    /\ op = "none"
    /\ returned = None
    /\ lookup_text = None
    /\ lookup_result = None
    /\ recorded = NothingRecorded

---------------------------------------------------------------------------
(* Inputs of the duplicate merger *)

\* "ab", "abc", "bc", " ab": at 80, "ab"~"abc" and "abc"~"bc" but not
\* "ab"~"bc"; " ab" is "ab" once stripped
Texts == { <<"a", "b">>, <<"a", "b", "c">>, <<"b", "c">>, <<" ", "a", "b">> }

Thresholds == { DUPLICATE_SIMILARITY_THRESHOLD,
                DUPLICATE_SIMILARITY_THRESHOLD - 15 }

\* A list as the loader builds it (load_asr_json, discover_matches): the
\* first h1 segments are half 1, the rest half 2; within a half the ids are
\* the keys of that half's file and the start times ascend.  A segment ends
\* when it starts, or after every segment of its half has started.
SegmentList(n, h1, text, long) ==
    [k \in 1..n |->
        LET half == IF k <= h1 THEN 1 ELSE 2
            id == IF k <= h1 THEN k - 1 ELSE k - h1 - 1
        IN Segment(id, id, IF long[k] THEN id + MaxSegs + 1 ELSE id,
                   text[k], half)]

NoResult == <<"none">>

DedupInit ==
    /\ Libraries
    /\ LearnedInit
    /\ PipelineIdle
    /\ FunctionsIdle
    /\ threshold \in Thresholds
    /\ deduped = NoResult
    /\ removed = NoResult
    /\ deduped2 = NoResult
    /\ removed2 = NoResult
    /\ ddpc = "input"
    /\ \E n \in 0..MaxSegs :
         \E h1 \in 0..n, text \in [1..n -> Texts], long \in [1..n -> BOOLEAN] :
            segments = SegmentList(n, h1, text, long)

\* the merger is run on the input
Deduplicate ==
    /\ ddpc = "input"
    /\ LET r == deduplicate_segments(segments, threshold) IN
         /\ deduped' = r.deduped
         /\ removed' = r.removed
    /\ ddpc' = "deduped"
    /\ UNCHANGED <<segments, threshold, deduped2, removed2>>
    /\ UNCHANGED <<ldvars, envvars, cmvars, fnvars>>

\* the merger is run again on its own output, threshold unchanged
Rededuplicate ==
    /\ ddpc = "deduped"
    /\ LET r == deduplicate_segments(deduped, threshold) IN
         /\ deduped2' = r.deduped
         /\ removed2' = r.removed
    /\ ddpc' = "rerun"
    /\ UNCHANGED <<segments, threshold, deduped, removed>>
    /\ UNCHANGED <<ldvars, envvars, cmvars, fnvars>>

DedupNext == Deduplicate \/ Rededuplicate

SpecDedup == DedupInit /\ [][DedupNext]_vars

---------------------------------------------------------------------------
(* Properties of the duplicate merger *)

\* the elements of a list of segments or of log entries that are of half h
RECURSIVE OfHalf(_, _)
OfHalf(seq, h) ==
    IF seq = <<>> THEN <<>>
    ELSE IF Head(seq).half = h THEN <<Head(seq)>> \o OfHalf(Tail(seq), h)
    ELSE OfHalf(Tail(seq), h)

Similar(s, t) == RatGeq(Similarity(s, t), RatInt(threshold))

\* C1: idempotence of merge.  Running deduplicate_segments on the list it
\* returned, with the same threshold, returns that list unchanged (every
\* field of every segment, in the same order) and an empty removal log.
C1_MergeIdempotent ==
    ddpc = "rerun" => deduped2 = deduped /\ removed2 = <<>>

\* a rerun on an output of several segments, after a first run that merged
C1_Witness ==
    ddpc = "rerun" /\ Len(deduped) >= 2 /\ removed # <<>>

\* C2: half isolation.  The second of two adjacent input segments whose half
\* differs is never merged: it survives in the output with its own id, start
\* time and text and is in no removal-log entry; and every removal-log entry
\* names a survivor of the removed segment's own half.
C2_HalfIsolation ==
    ddpc # "input" =>
        /\ \A i \in 1..(Len(segments) - 1) :
             segments[i].half # segments[i + 1].half =>
                LET s == segments[i + 1] IN
                /\ \E j \in 1..Len(deduped) :
                      /\ deduped[j].segment_id = s.segment_id
                      /\ deduped[j].half = s.half
                      /\ deduped[j].start_time = s.start_time
                      /\ deduped[j].text = s.text
                /\ \A j \in 1..Len(removed) :
                      ~(/\ removed[j].segment_id = s.segment_id
                        /\ removed[j].half = s.half)
        /\ \A j \in 1..Len(removed) :
             \E k \in 1..Len(deduped) :
                /\ deduped[k].segment_id = removed[j].duplicate_of
                /\ deduped[k].half = removed[j].half

\* two adjacent segments of different halves with the same text, in a list
\* in which something else was merged
C2_Witness ==
    /\ ddpc = "deduped"
    /\ removed # <<>>
    /\ \E i \in 1..(Len(segments) - 1) :
          /\ segments[i].half # segments[i + 1].half
          /\ segments[i].text = segments[i + 1].text

\* every segment after the first is of the half of its predecessor and
\* similar to its predecessor
PredecessorChain ==
    \A i \in 2..Len(segments) :
        /\ segments[i].half = segments[i - 1].half
        /\ Similar(segments[i - 1], segments[i])

\* every segment after the first is of the half of the first segment and
\* similar to the first segment
HeadChain ==
    \A i \in 2..Len(segments) :
        /\ segments[i].half = segments[1].half
        /\ Similar(segments[1], segments[i])

Block(h) == {k \in 1..Len(segments) : segments[k].half = h}

First(h) == CHOOSE k \in Block(h) : \A m \in Block(h) : k <= m

MaxEnd(h) ==
    CHOOSE e \in {segments[k].end_time : k \in Block(h)} :
        \A k \in Block(h) : segments[k].end_time <= e

\* the segments of half h are a run of identical texts
IdenticalRun(h) ==
    /\ Block(h) # {}
    /\ \A k \in Block(h) : segments[k].text = segments[First(h)].text

Occurrences(seq, half, id) ==
    Cardinality({ i \in 1..Len(seq) :
                     seq[i].half = half /\ seq[i].segment_id = id })

\* the place of the segment of this half and id in the input
PlaceOf(half, id) ==
    CHOOSE i \in 1..Len(segments) :
        segments[i].half = half /\ segments[i].segment_id = id

\* C28: merge conservation.  Each input segment (a segment id of a half)
\* is exactly once either a segment of the output or a removed entry of the
\* log, so that the lengths add up; the output keeps the order of the input;
\* the duplicate_of of a log entry is the id of an output segment of the
\* same half that precedes the removed segment in the input; and an output
\* segment starts no later than it ends, as the input segments do.
C28_MergeConservation ==
    ddpc # "input" =>
        /\ Len(deduped) + Len(removed) = Len(segments)
        /\ \A i \in 1..Len(segments) :
              Occurrences(deduped, segments[i].half, segments[i].segment_id)
                 + Occurrences(removed, segments[i].half, segments[i].segment_id)
                 = 1
        /\ \A i, j \in 1..Len(deduped) :
              i < j => PlaceOf(deduped[i].half, deduped[i].segment_id)
                          < PlaceOf(deduped[j].half, deduped[j].segment_id)
        /\ \A k \in 1..Len(removed) :
              /\ Occurrences(deduped, removed[k].half, removed[k].duplicate_of) = 1
              /\ PlaceOf(removed[k].half, removed[k].duplicate_of)
                    < PlaceOf(removed[k].half, removed[k].segment_id)
        /\ (\A i \in 1..Len(segments) :
               segments[i].start_time <= segments[i].end_time)
              => \A i \in 1..Len(deduped) :
                    deduped[i].start_time <= deduped[i].end_time

\* two similar segments of the first half and one of the second: one is
\* removed, the first is extended, the third is kept
C28_Witness ==
    /\ ddpc = "deduped"
    /\ Len(segments) = 3
    /\ Len(removed) = 1
    /\ Len(deduped) = 2
    /\ deduped[1].half = 1
    /\ deduped[2].half = 2
    /\ removed[1].duplicate_of = deduped[1].segment_id
    /\ deduped[1].end_time > segments[1].end_time

---------------------------------------------------------------------------
(* The learned dictionary under update batches and lookups *)

\* the merger's variables when the merger is not run
DedupIdle ==
    /\ segments = <<>>
    /\ threshold = DUPLICATE_SIMILARITY_THRESHOLD
    /\ deduped = NoResult
    /\ removed = NoResult
    /\ deduped2 = NoResult
    /\ removed2 = NoResult
    /\ ddpc = "idle"

\* a correction as update_learned_dictionary reads it: original, corrected
\* and combined_score
Recorded(original, corrected, score) ==
    Correction(original, corrected, RatInt(score), RatInt(score), TRUE, FALSE,
               "test", "fuzzy+phonetic")

\* the corrections handed to update_learned_dictionary: two spellings of one
\* key with two corrected values and two scores, and a second key
LearnedCorrections ==
    { Recorded(Zuma, Zouma, 78), Recorded(zuma, Bony, 100),
      Recorded(Boney, Bony, 78) }

Batches ==
    UNION { [1..n -> LearnedCorrections] : n \in 0..MaxBatch }

LookupTexts == {Zuma, zuma, ZUMA, Boney, Turi}

\* the correction recorded again and again in the long run of one key
LongRun == Recorded(Zuma, Zouma, 78)

\* The stores the model explores: every key seen at most MaxSeen times, or
\* the one key of LongRun seen at most MaxSeenLong times with its one
\* corrected value and score.
Explored(dictionary) ==
    \/ \A k \in DOMAIN dictionary : dictionary[k].seen_count <= MaxSeen
    \/ /\ DOMAIN dictionary = {lower(LongRun.original)}
       /\ LET e == dictionary[lower(LongRun.original)] IN
            /\ e.seen_count <= MaxSeenLong
            /\ e.correct = LongRun.corrected
            /\ e.fuzzy_score_avg = LongRun.combined_score

\* the corrections handed over so far, counted per key apart from the store
RecordOne(rec, corr) ==
    LET key == lower(corr.original) IN
    [rec EXCEPT ![key] =
        [count |-> @.count + 1,
         total |-> RatAdd(@.total, corr.combined_score),
         first |-> IF @.count = 0 THEN corr.corrected ELSE @.first]]

RECURSIVE RecordAll(_, _, _)
RecordAll(rec, corrections, i) ==
    IF i = 0 THEN rec
    ELSE RecordOne(RecordAll(rec, corrections, i - 1), corrections[i])

\* update_learned_dictionary(corrections)
UpdateLearned ==
    \E corrections \in Batches :
        LET u == update_learned_dictionary(store_file, corrections) IN
        /\ Explored(AsMap(u.dictionary))
        /\ store_file' = u.file
        /\ returned' = u.dictionary
        /\ op' = "update"
        /\ recorded' = RecordAll(recorded, corrections, Len(corrections))
        /\ lookup_text' = None
        /\ lookup_result' = None
        /\ UNCHANGED <<ddvars, envvars, cmvars, fnvars>>

\* lookup_learned(entity_text)
LookupLearned ==
    \E entity_text \in LookupTexts :
        LET l == lookup_learned(store_file, entity_text) IN
        /\ store_file' = l.file
        /\ lookup_text' = entity_text
        /\ lookup_result' = l.result
        /\ op' = "lookup"
        /\ returned' = None
        /\ UNCHANGED recorded
        /\ UNCHANGED <<ddvars, envvars, cmvars, fnvars>>

LearnedNext == UpdateLearned \/ LookupLearned

LearnedSpecInit ==
    LearnedInit /\ DedupIdle /\ Libraries /\ PipelineIdle /\ FunctionsIdle

SpecLearned == LearnedSpecInit /\ [][LearnedNext]_vars

---------------------------------------------------------------------------
(* Properties of the learned dictionary *)

\* the dict held by the file (the empty dict when there is no file)
Stored == AsMap(ParseStore(store_file))

\* the corrections handed to update_learned_dictionary so far under key
Sightings(key) == IF key \in LearnedKeys THEN recorded[key].count ELSE 0

C6_EntryInvariant ==
    [][ \A k \in DOMAIN Stored' :
          /\ Stored'[k].seen_count >= 1
          /\ RatGeq(Stored'[k].confidence, Rat(1, 2))
          /\ RatGeq(Rat(99, 100), Stored'[k].confidence)
          /\ k \in DOMAIN Stored =>
                RatGeq(Stored'[k].confidence, Stored[k].confidence) ]_vars

\* an entry with 0.99 beside an entry with 0.5 cannot happen within the
\* stores explored; the witness is an entry at 0.99 after an update
C6_Witness ==
    /\ op = "update"
    /\ \E k \in DOMAIN Stored :
          Stored[k].confidence = Rat(99, 100) /\ Stored[k].seen_count > 99

\* C7: lookup gating.  lookup_learned(text) returns None when fewer than 2
\* corrections were recorded under the lowercased text (none, or exactly 1)
\* and the stored canonical value of that key once 2 or more were; the
\* text's own case does not matter.
C7_LookupGating ==
    op = "lookup" =>
        LET key == lower(lookup_text) IN
        IF Sightings(key) >= 2
        THEN key \in DOMAIN Stored /\ lookup_result = Stored[key].correct
        ELSE lookup_result = None

\* a hit for a spelling whose case was never recorded
C7_Witness ==
    op = "lookup" /\ lookup_text = ZUMA /\ lookup_result = Zouma

\* C8: cache update rule.  Under each key the store holds exactly what the
\* corrections recorded under it give: no entry when there were none;
\* otherwise the corrected value of the first, their number n as sighting
\* count, the arithmetic mean of their scores as running average, and
\* confidence 0.5 for n = 1 and min(0.99, 1 - 1/(n+1)) beyond.
C8_UpdateRule ==
    /\ DOMAIN Stored \subseteq LearnedKeys
    /\ \A k \in LearnedKeys :
         LET n == recorded[k].count IN
         IF n = 0 THEN k \notin DOMAIN Stored
         ELSE /\ k \in DOMAIN Stored
              /\ Stored[k].correct = recorded[k].first
              /\ Stored[k].seen_count = n
              /\ Stored[k].fuzzy_score_avg = RatDiv(recorded[k].total, RatInt(n))
              /\ Stored[k].confidence =
                    IF n = 1 THEN Rat(1, 2)
                    ELSE IF 100 * n >= 99 * (n + 1) THEN Rat(99, 100)
                    ELSE Rat(n, n + 1)

\* three corrections of unequal scores under one key, one under the other
C8_Witness ==
    /\ op = "update"
    /\ recorded[lower(Zuma)].count = 3
    /\ recorded[lower(Zuma)].total = RatInt(256)
    /\ recorded[lower(Boney)].count = 1

\* C9: lookup never mutates the store.  A lookup_learned call leaves the
\* file as it was, whether it exists or not and whatever the call returns.
C9_LookupLeavesStore ==
    [][ op' = "lookup" => store_file' = store_file ]_vars

\* a lookup made while there is no file
C9_Witness ==
    op = "lookup" /\ ~store_file.exists /\ lookup_result = None


\* the corrections of the batch recorded under key by the step
InBatch(key) == recorded'[key].count - recorded[key].count

\* C21: no eviction.  No update batch and no lookup removes a key from the
\* file or lowers a key's sighting count; after an update batch the file
\* holds the dict the update returned; and while there is no file a lookup
\* returns None and an update batch leaves what it leaves on the empty dict,
\* the keys of the batch with the batch's sightings.
C21_NoEviction ==
    [][ /\ \A k \in DOMAIN Stored :
             /\ k \in DOMAIN Stored'
             /\ Stored'[k].seen_count >= Stored[k].seen_count
        /\ op' = "update" =>
             /\ store_file'.exists
             /\ ParseStore(store_file') = returned'
        /\ ~store_file.exists =>
             /\ op' = "lookup" => lookup_result' = None
             /\ op' = "update" =>
                  /\ DOMAIN Stored' = {k \in LearnedKeys : InBatch(k) > 0}
                  /\ \A k \in DOMAIN Stored' :
                        Stored'[k].seen_count = InBatch(k) ]_vars

\* the file after update batches: both keys, one of them sighted three times
C21_Witness ==
    /\ op = "update"
    /\ returned = ParseStore(store_file)
    /\ DOMAIN Stored = LearnedKeys
    /\ Stored[lower(Zuma)].seen_count = 3

\* C29: first canonical wins.  A key of the file keeps its correct value
\* through every later update batch, whatever corrected value the later
\* corrections of that key carry.
C29_FirstCanonicalWins ==
    [][ \A k \in DOMAIN Stored :
           /\ k \in DOMAIN Stored'
           /\ Stored'[k].correct = Stored[k].correct ]_vars

\* "zuma" recorded for "Zouma" at 78, then again for "Bony" at 100: the
\* average is 89 and the correct value is still "Zouma"
C29_Witness ==
    /\ op = "update"
    /\ lower(Zuma) \in DOMAIN Stored
    /\ Stored[lower(Zuma)].seen_count = 2
    /\ Stored[lower(Zuma)].fuzzy_score_avg = RatInt(89)
    /\ Stored[lower(Zuma)].correct = Zouma

---------------------------------------------------------------------------
(* clean_match, run on one match after the other *)

\* the event metadata: Kurt Zouma at home, Bony (short name only) away
EventLabels ==
    [EmptyLabels EXCEPT
        !.lineup.home.players = << Person(KurtZouma, <<>>, <<>>) >>,
        !.lineup.away.players = << Person(<<>>, Bony, <<>>) >>]

MatchLabels == {EventLabels, NoLabels}

MatchTexts == {ZumaShootsWide, BoneyFindsZuma, Ok}

\* Before the first run: no store file, no output files; the metadata of
\* the event is the same in every run.
PipelineInit ==
    /\ \E labels \in MatchLabels :
          match_data = [segments |-> <<>>, labels |-> labels]
    /\ dry_run = FALSE
    /\ pc = "idle"
    /\ cm = NoLocals
    /\ output_files = [half_num \in {1, 2} |-> NoOutput]
    /\ runs = 0
    /\ LearnedInit
    /\ DedupIdle
    /\ Libraries
    /\ FunctionsIdle

\* clean_match(match, dry_run) is called (lines 53-73)
StartMatch ==
    /\ pc = "idle"
    /\ runs < MaxRuns
    /\ \E n \in 0..MaxMatchSegs :
         \E text \in [1..n -> MatchTexts] :
            match_data' =
               [match_data EXCEPT
                   !.segments = SegmentList(n, n, text, [k \in 1..n |-> FALSE])]
    /\ dry_run' \in BOOLEAN
    /\ pc' = "start"
    /\ cm' = NoLocals
    /\ UNCHANGED <<output_files, runs, ddvars, ldvars, envvars, fnvars>>

\* step 1 (line 76)
BuildGazetteer ==
    /\ pc = "start"
    /\ cm' = [cm EXCEPT
                 !.gazetteer = build_gazetteer(match_data.labels, TRUE, store_file)]
    /\ pc' = "gazetteer"
    /\ UNCHANGED <<match_data, dry_run, output_files, runs>>
    /\ UNCHANGED <<ddvars, ldvars, envvars, fnvars>>

\* step 2 (line 80)
FilterSegments ==
    /\ pc = "gazetteer"
    /\ LET f == filter_segments(match_data.segments) IN
         cm' = [cm EXCEPT !.valid_segments = f.kept,
                          !.removed_hallucinations = f.removed]
    /\ pc' = "filtered"
    /\ UNCHANGED <<match_data, dry_run, output_files, runs>>
    /\ UNCHANGED <<ddvars, ldvars, envvars, fnvars>>

\* step 3 (line 84)
DeduplicateSegments ==
    /\ pc = "filtered"
    /\ LET d == deduplicate_segments(cm.valid_segments,
                                     DUPLICATE_SIMILARITY_THRESHOLD) IN
         cm' = [cm EXCEPT !.deduped_segments = d.deduped,
                          !.removed_duplicates = d.removed]
    /\ pc' = "deduped"
    /\ UNCHANGED <<match_data, dry_run, output_files, runs>>
    /\ UNCHANGED <<ddvars, ldvars, envvars, fnvars>>

\* the locals after one more segment (lines 98, 140, 161, 163)
AfterSegment(locals, c) ==
    [locals EXCEPT !.all_corrections = @ \o c.corrections,
                   !.corrected_segments = Append(@, c.segment),
                   !.total_entities = @ + c.entities]

\* step 4, one segment (lines 92-169)
CorrectNextSegment ==
    /\ pc = "deduped"
    /\ Len(cm.corrected_segments) < Len(cm.deduped_segments)
    /\ cm' = AfterSegment(
                cm, CorrectSegment(cm.deduped_segments[Len(cm.corrected_segments) + 1],
                                   cm.gazetteer, store_file))
    /\ UNCHANGED <<match_data, dry_run, pc, output_files, runs>>
    /\ UNCHANGED <<ddvars, ldvars, envvars, fnvars>>

\* step 5 without the test of line 175: the dictionary is updated whether a
\* correction was made or not
UpdateLearnedDictionaryAlways ==
    /\ pc = "deduped"
    /\ Len(cm.corrected_segments) = Len(cm.deduped_segments)
    /\ store_file' = update_learned_dictionary(store_file, cm.all_corrections).file
    /\ pc' = "learned"
    /\ UNCHANGED <<match_data, dry_run, cm, output_files, runs>>
    /\ UNCHANGED <<op, returned, lookup_text, lookup_result, recorded>>
    /\ UNCHANGED <<ddvars, envvars, fnvars>>

\* step 5, once every segment is corrected (lines 175-176)
UpdateLearnedDictionary ==
    /\ pc = "deduped"
    /\ Len(cm.corrected_segments) = Len(cm.deduped_segments)
    /\ store_file' =
          IF cm.all_corrections # <<>>
          THEN update_learned_dictionary(store_file, cm.all_corrections).file
          ELSE store_file
    /\ pc' = "learned"
    /\ UNCHANGED <<match_data, dry_run, cm, output_files, runs>>
    /\ UNCHANGED <<op, returned, lookup_text, lookup_result, recorded>>
    /\ UNCHANGED <<ddvars, envvars, fnvars>>

\* step 6 and the return (lines 179-204)
WriteOutput ==
    /\ pc = "learned"
    /\ output_files' =
          IF ~dry_run
          THEN write_cleaned_output(output_files, match_data.segments,
                                    cm.corrected_segments, cm.all_corrections)
          ELSE output_files
    /\ pc' = "idle"
    /\ runs' = runs + 1
    /\ UNCHANGED <<match_data, dry_run, cm>>
    /\ UNCHANGED <<ddvars, ldvars, envvars, fnvars>>

PipelineNext ==
    \/ StartMatch
    \/ BuildGazetteer
    \/ FilterSegments
    \/ DeduplicateSegments
    \/ CorrectNextSegment
    \/ UpdateLearnedDictionary
    \/ WriteOutput

SpecPipeline == PipelineInit /\ [][PipelineNext]_vars

---------------------------------------------------------------------------
(* Properties of clean_match *)

\* every segment of the run is corrected and the learned dictionary is not
\* yet updated: the store is the one the run started with
SegmentsCorrected ==
    pc = "deduped" /\ Len(cm.corrected_segments) = Len(cm.deduped_segments)

\* the run has a correction of this entity of this segment
IsCorrected(seg, entity) ==
    \E k \in 1..Len(cm.all_corrections) :
        /\ cm.all_corrections[k].segment_id = seg.segment_id
        /\ cm.all_corrections[k].original
              \in {entity.text, EntityClean(entity.text)}

\* C10: cross-event learning.  The event metadata being the same in every
\* run, an entity detected in a run whose lowercased spelling is a key of
\* the learned dictionary the run started with (it was corrected and
\* recorded in an earlier run) is corrected in this run as well.
C10_CrossEventLearning ==
    SegmentsCorrected =>
        \A i \in 1..Len(cm.deduped_segments) :
            \A j \in 1..Len(extract_entities(cm.deduped_segments[i])) :
                LET seg == cm.deduped_segments[i]
                    entity == extract_entities(seg)[j]
                IN lower(EntityClean(entity.text)) \in DOMAIN Stored =>
                      IsCorrected(seg, entity)

\* C23: dry run writes nothing.  No step of a run of clean_match with
\* dry_run set changes the learned corrections file or the cleaned output
\* files.
C23_DryRunWritesNothing ==
    [][ (dry_run /\ pc \notin {"idle", "off"}) =>
           /\ store_file' = store_file
           /\ output_files' = output_files ]_vars

---------------------------------------------------------------------------
(* Step 4 of clean_match against the learned dictionary of earlier events *)

\* the corrections earlier events handed to update_learned_dictionary
EarlierBatches ==
    { << Recorded(Zuma, Zouma, 80) >>,
      << Recorded(Zuma, Zouma, 80), Recorded(Zuma, Zouma, 80) >>,
      << Recorded(Zuma, Zouma, 80), Recorded(Zuma, Zouma, 80),
         Recorded(Boney, Bony, 80) >>,
      << Recorded(Zuma, Zouma, 80), Recorded(Zuma, Zouma, 80),
         Recorded(Boney, Bony, 80), Recorded(Boney, Bony, 80) >> }

\* the file as earlier events left it
EarlierFiles ==
    {NoFile}
       \cup { update_learned_dictionary(NoFile, batch).file :
                 batch \in EarlierBatches }

\* the locals of clean_match once steps 1 to 3 have run (lines 76-90)
LocalsAtStepFour(segs, labels, file) ==
    [NoLocals EXCEPT
        !.gazetteer = build_gazetteer(labels, TRUE, file),
        !.valid_segments = filter_segments(segs).kept,
        !.removed_hallucinations = filter_segments(segs).removed,
        !.deduped_segments =
            deduplicate_segments(filter_segments(segs).kept,
                                 DUPLICATE_SIMILARITY_THRESHOLD).deduped,
        !.removed_duplicates =
            deduplicate_segments(filter_segments(segs).kept,
                                 DUPLICATE_SIMILARITY_THRESHOLD).removed]

\* clean_match at the start of its loop over the deduplicated segments
StepFourInit ==
    /\ Libraries
    /\ store_file \in EarlierFiles
    /\ op = "none"
    /\ returned = None
    /\ lookup_text = None
    /\ lookup_result = None
    /\ recorded = NothingRecorded
    /\ \E labels \in MatchLabels, n \in 0..MaxMatchSegs :
          \E text \in [1..n -> MatchTexts] :
             /\ match_data =
                   [segments |-> SegmentList(n, n, text, [k \in 1..n |-> FALSE]),
                    labels |-> labels]
             /\ cm = LocalsAtStepFour(match_data.segments, labels, store_file)
    /\ dry_run = FALSE
    /\ pc = "deduped"
    /\ output_files = [half_num \in {1, 2} |-> NoOutput]
    /\ runs = 0
    /\ DedupIdle
    /\ FunctionsIdle

SpecStepFour == StepFourInit /\ [][CorrectNextSegment]_vars

\* the learned dictionary has no correction to apply to the entity
LearnedMiss(entity) ==
    LET entity_text == LookupText(entity) IN
    \/ entity_text = <<>>
    \/ lower(entity_text) \in COMMON_WORDS_EXCLUDE
    \/ Len(strip(entity_text)) <= 2
    \/ lookup_learned(store_file, entity_text).result \in {None, <<>>}

\* C25: fallback to scoring.  In every segment of the run corrected so far,
\* an entity the learned dictionary has no correction for is scored by the
\* fuzzy corrector: if find_best_match has a correction for it against the
\* gazetteer of the run, the run has a correction of it, whether another
\* entity of the segment was corrected from the learned dictionary or not.
C25_FallbackToScoring ==
    pc = "deduped" =>
        \A i \in 1..Len(cm.corrected_segments) :
            \A j \in 1..Len(extract_entities(cm.deduped_segments[i])) :
                LET seg == cm.deduped_segments[i]
                    entity == extract_entities(seg)[j]
                IN (LearnedMiss(entity)
                       /\ find_best_match(entity.text, cm.gazetteer, NoContext)
                             # NoCorrection)
                      => IsCorrected(seg, entity)

\* the stages of clean_match in their order
StageOrder ==
    { <<"idle", "start">>, <<"start", "gazetteer">>,
      <<"gazetteer", "filtered">>, <<"filtered", "deduped">>,
      <<"deduped", "learned">>, <<"learned", "idle">> }

\* C26: stage ordering within one run.  The stages follow one another in
\* the order gazetteer, filter, merger, per-segment correction, update of
\* the learned dictionary, output; a stage's result is written by that stage
\* alone; the learned corrections file changes only in the update stage,
\* entered once per run after every segment is corrected, and only when the
\* run recorded a correction, so that the file is the same from the start of
\* the run to the end of the correction of its segments.
C26_StageOrdering ==
    [][ /\ pc' # pc => <<pc, pc'>> \in StageOrder
        /\ cm'.gazetteer # cm.gazetteer =>
              (<<pc, pc'>> = <<"start", "gazetteer">> \/ pc = "idle")
        /\ cm'.valid_segments # cm.valid_segments =>
              (<<pc, pc'>> = <<"gazetteer", "filtered">> \/ pc = "idle")
        /\ cm'.deduped_segments # cm.deduped_segments =>
              (<<pc, pc'>> = <<"filtered", "deduped">> \/ pc = "idle")
        /\ (cm'.corrected_segments # cm.corrected_segments
               \/ cm'.all_corrections # cm.all_corrections) =>
              ((pc = "deduped" /\ pc' = "deduped") \/ pc = "idle")
        /\ <<pc, pc'>> = <<"deduped", "learned">> =>
              /\ Len(cm.corrected_segments) = Len(cm.deduped_segments)
              /\ cm.all_corrections = <<>> => store_file' = store_file
        /\ store_file' # store_file =>
              /\ <<pc, pc'>> = <<"deduped", "learned">>
              /\ cm.all_corrections # <<>>
        /\ output_files' # output_files => <<pc, pc'>> = <<"learned", "idle">>
      ]_vars

\* the update stage of a run of two segments that recorded corrections has
\* written the file
C26_Witness ==
    /\ pc = "learned"
    /\ Len(cm.corrected_segments) = 2
    /\ cm.all_corrections # <<>>
    /\ store_file = update_learned_dictionary(NoFile, cm.all_corrections).file

---------------------------------------------------------------------------
(* Single calls of find_best_match and correct_segment_text *)

\* most entities handed to correct_segment_text
MaxEntities == 2

\* a name as a detector may hand it over: bare, or with punctuation, a
\* possessive marker or blanks around it
Dressed(name) ==
    { name, name \o <<".">>, <<".">> \o name, name \o <<"'", "s">>,
      name \o <<RightQuote, "s">>, name \o <<".", "'", "s">>,
      name \o <<"'", "s", ".">>, <<",">> \o name \o <<"!", "?">> }

\* the texts of the entities
SpanTexts ==
    Dressed(Zuma)
       \cup { Dan, Dan \o <<"'", "s">>, Dan \o <<",">>, Zouma, lower(Zouma),
              Zouma \o <<".">>, Kurd, KurtZuma, KurtZuma \o <<".">>, Turi }

\* the entity texts handed to find_best_match: the above, a name between
\* blanks, the empty text, a text of two characters, a text of punctuation
EntityTexts ==
    SpanTexts
       \cup { <<" ">> \o Zuma \o <<" ">>, <<>>, <<"Z", "u">>, <<".", ".">> }

\* the second entity of a text
SecondTexts == { Boney, Dan, Zouma }

\* the gazetteers: none, that of a match with Kurt Zouma and Bony, one whose
\* only key is a full name, one with the name Dann
GazEvent ==
    << <<KurtZouma, KurtZouma>>, <<Zouma, KurtZouma>>, <<Bony, Bony>> >>
GazFullName == << <<KurtZouma, KurtZouma>> >>
GazDann == << <<Dann, Dann>>, <<Zouma, KurtZouma>> >>
MatcherGazetteers == { <<>>, GazEvent, GazFullName, GazDann }

\* a gazetteer of seven keys, "Zuuma" before "Zouma"
GazSquad ==
    << <<Zuuma, Zuuma>>, <<Zouma, KurtZouma>>, <<KurtZouma, KurtZouma>>,
       <<Bony, Bony>>, <<Dann, Dann>>, <<Turi, Turi>>, <<Boney, Boney>> >>

\* a gazetteer whose only key shares no character with "Zuma"
GazBony == << <<Bony, Bony>> >>

\* the gazetteer build_gazetteer returns for the event once "zuma" is
\* learned for "Zouma"
GazLearned ==
    build_gazetteer(EventLabels, TRUE,
                    save_learned_dictionary(
                        UpdateOne(EmptyDict, Recorded(Zuma, Zouma, 80))))

\* a gazetteer whose key has the Soundex code of "Robert" and another
\* Metaphone code
GazRupert == << <<Rupert, Rupert>> >>

\* the gazetteers handed to find_best_match
FindGazetteers ==
    MatcherGazetteers \cup {GazSquad, GazBony, GazLearned, GazRupert}

\* context_names
MatcherContexts == { NoContext, {KurtZouma} }

\* the spans of the text "<first> <second>"
FirstSpan(first) == DetectedEntity(first, "PERSON", 0, Len(first), "spacy")
SecondSpan(first, second) ==
    DetectedEntity(second, "PERSON", Len(first) + 1,
                   Len(first) + 1 + Len(second), "spacy")

\* the lists of at most MaxEntities entities over the two spans, in any
\* order, a span listed once or several times
SpanLists(first, second) ==
    UNION { [1..n -> {FirstSpan(first), SecondSpan(first, second)}] :
               n \in 0..MaxEntities }

\* a call of find_best_match, before it runs
FindCalls ==
    [pc : {"ready"}, fn : {"find_best_match"},
     entity_text : EntityTexts \cup {Zumma, Robert},
     gazetteer : FindGazetteers, context_names : MatcherContexts]

\* a call of correct_segment_text, before it runs
CorrectCalls ==
    UNION { [pc : {"ready"}, fn : {"correct_segment_text"},
             text : {first \o <<" ">> \o second},
             entities : SpanLists(first, second),
             gazetteer : MatcherGazetteers, segment_id : {7},
             context_names : MatcherContexts] :
               first \in SpanTexts, second \in SecondTexts }

MatcherInit ==
    /\ jellyfish \in {Jellyfish(raises) : raises \in {"no", "metaphone", "soundex"}}
    /\ ner = Detections
    /\ langdetect = "en"
    /\ fc \in FindCalls \cup CorrectCalls
    /\ hf = [pc |-> "off"]
    /\ gz = [pc |-> "off"]
    /\ upd = [pc |-> "off"]
    /\ LearnedInit
    /\ DedupIdle
    /\ PipelineIdle

\* find_best_match(entity_text, gazetteer, context_names) returns
FindBestMatch ==
    /\ fc.pc = "ready"
    /\ fc.fn = "find_best_match"
    /\ fc' = [pc |-> "returned", fn |-> fc.fn, entity_text |-> fc.entity_text,
              gazetteer |-> fc.gazetteer, context_names |-> fc.context_names,
              match |-> find_best_match(fc.entity_text, fc.gazetteer,
                                        fc.context_names)]
    /\ UNCHANGED <<hf, gz, upd, ddvars, ldvars, envvars, cmvars>>

\* correct_segment_text(text, entities, gazetteer, segment_id,
\* context_names) returns
CorrectSegmentText ==
    /\ fc.pc = "ready"
    /\ fc.fn = "correct_segment_text"
    /\ fc' = [pc |-> "returned", fn |-> fc.fn, text |-> fc.text,
              entities |-> fc.entities, gazetteer |-> fc.gazetteer,
              segment_id |-> fc.segment_id,
              context_names |-> fc.context_names,
              result |-> correct_segment_text(fc.text, fc.entities,
                                              fc.gazetteer, fc.segment_id,
                                              fc.context_names)]
    /\ UNCHANGED <<hf, gz, upd, ddvars, ldvars, envvars, cmvars>>

MatcherNext == FindBestMatch \/ CorrectSegmentText

SpecMatcher == MatcherInit /\ [][MatcherNext]_vars

\* find_best_match has returned
Matched == fc.pc = "returned" /\ fc.fn = "find_best_match"

\* correct_segment_text has returned
Rewritten == fc.pc = "returned" /\ fc.fn = "correct_segment_text"

---------------------------------------------------------------------------
(* Properties of find_best_match and correct_segment_text *)

\* the normalized text of the entity, lowercased, is in the exclusion set
Excluded(entity_text) ==
    lower(EntityClean(entity_text)) \in COMMON_WORDS_EXCLUDE

\* two spans share a character
Overlap(e1, e2) ==
    e1.start_char < e2.end_char /\ e2.start_char < e1.end_char

\* the entities of the list that start where e ends or later, in their order
RECURSIVE RightOf(_, _)
RightOf(entities, e) ==
    IF entities = <<>> THEN <<>>
    ELSE IF Head(entities).start_char >= e.end_char
    THEN <<Head(entities)>> \o RightOf(Tail(entities), e)
    ELSE RightOf(Tail(entities), e)

\* the characters that follow the span of e once the entities to its right
\* are rewritten
CharsAfter(e) ==
    Len(correct_segment_text(fc.text, RightOf(fc.entities, e), fc.gazetteer,
                             fc.segment_id, fc.context_names).corrected_text)
       - e.end_char

\* the rewritten text holds the characters of e where the span of e has
\* come to lie
SpanUnchanged(e) ==
    LET after == CharsAfter(e)
        rewritten == fc.result.corrected_text
    IN /\ Len(rewritten) >= after + Len(e.text)
       /\ SubSeq(rewritten, Len(rewritten) - after - Len(e.text) + 1,
                 Len(rewritten) - after) = e.text

\* no other span of the list shares a character with e
Apart(e) ==
    \A j \in 1..Len(fc.entities) :
        fc.entities[j] = e \/ ~Overlap(fc.entities[j], e)

\* C11: exclusion invariant.  For an entity text whose normalized form,
\* lowercased, is in the exclusion set, find_best_match returns None whatever
\* the gazetteer and the context names are, and correct_segment_text records
\* no correction for it and leaves the characters of its span as they were.
C11_ExclusionInvariant ==
    /\ (Matched /\ Excluded(fc.entity_text)) => fc.match = NoCorrection
    /\ Rewritten =>
          \A i \in 1..Len(fc.entities) :
              (Excluded(fc.entities[i].text) /\ Apart(fc.entities[i])) =>
                  /\ SpanUnchanged(fc.entities[i])
                  /\ \A k \in 1..Len(fc.result.corrections) :
                        fc.result.corrections[k].original
                           # EntityClean(fc.entities[i].text)

\* "Zuma Dan" with the names Dann and Zouma in the gazetteer: "Zuma" is
\* rewritten, "Dan" is not
C11_Witness ==
    /\ Rewritten
    /\ fc.gazetteer = GazDann
    /\ fc.text = Zuma \o <<" ">> \o Dan
    /\ fc.entities = << FirstSpan(Zuma), SecondSpan(Zuma, Dan) >>
    /\ fc.result.corrected_text = Zouma \o <<" ">> \o Dan
    /\ Len(fc.result.corrections) = 1

\* the normalized text of the entity is a key of the gazetteer, as it is
\* written or in another case
Canonical(entity_text, gazetteer) ==
    \E i \in 1..Len(gazetteer) :
        \/ gazetteer[i][1] = EntityClean(entity_text)
        \/ lower(gazetteer[i][1]) = lower(EntityClean(entity_text))

\* C12: no-op on canonical input.  When the normalized entity text is a key
\* of the gazetteer, exactly or ignoring case, find_best_match returns None;
\* correct_segment_text, handed only such entities, returns the text as it
\* was and an empty list of corrections.
C12_CanonicalNoOp ==
    /\ (Matched /\ Canonical(fc.entity_text, fc.gazetteer)) =>
          fc.match = NoCorrection
    /\ (Rewritten
           /\ \A i \in 1..Len(fc.entities) :
                 Canonical(fc.entities[i].text, fc.gazetteer)) =>
          /\ fc.result.corrected_text = fc.text
          /\ fc.result.corrections = <<>>

\* "zouma Zouma": a key in another case and a key as it is written
C12_Witness ==
    /\ Rewritten
    /\ fc.gazetteer = GazEvent
    /\ fc.entities = << FirstSpan(lower(Zouma)), SecondSpan(lower(Zouma), Zouma) >>
    /\ fc.result.corrected_text = lower(Zouma) \o <<" ">> \o Zouma
    /\ fc.result.corrections = <<>>

\* what is attached to the name in a span: the punctuation before it, and
\* the punctuation and the possessive marker after it, the marker before or
\* behind the punctuation
Attached(span) ==
    LET s == strip(span)
        marker_last == IsPossessive(s)
        s1 == IF marker_last THEN StripPossessive(s) ELSE StripTrailingPunct(s)
        marker_first == ~marker_last /\ IsPossessive(s1)
        s2 == IF marker_last THEN StripTrailingPunct(s1) ELSE StripPossessive(s1)
    IN [leading |-> LeadingPunct(s2),
        trailing |-> IF marker_last THEN TrailingPunct(s1) ELSE TrailingPunct(s),
        possessive |-> IF marker_last THEN TrailingPossessive(s)
                       ELSE IF marker_first THEN TrailingPossessive(s1)
                       ELSE <<>>]

\* the rewritten span holds the punctuation before the name, the replacement
\* name, and the punctuation and the marker behind it, each once
Reattached(rewritten_span, span, name) ==
    LET a == Attached(span) IN
    \/ rewritten_span = a.leading \o name \o a.trailing \o a.possessive
    \/ rewritten_span = a.leading \o name \o a.possessive \o a.trailing

\* C13: punctuation and possessive preservation.  When the one span handed
\* to correct_segment_text is corrected, the span is rewritten to its leading
\* punctuation, the replacement name, its trailing punctuation and its
\* possessive marker, whichever of the two came first in the span; the text
\* around the span stays.
C13_PunctuationPreserved ==
    (Rewritten /\ Len(fc.entities) = 1 /\ Len(fc.result.corrections) = 1) =>
        LET e == fc.entities[1]
            before == Prefix(fc.text, e.start_char)
            after == Suffix(fc.text, e.end_char)
            rewritten == fc.result.corrected_text
        IN /\ Len(rewritten) >= Len(before) + Len(after)
           /\ Prefix(rewritten, Len(before)) = before
           /\ Suffix(rewritten, Len(rewritten) - Len(after)) = after
           /\ Reattached(SubSeq(rewritten, Len(before) + 1,
                                Len(rewritten) - Len(after)),
                         e.text, fc.result.corrections[1].corrected)

\* the combined score of the i-th candidate
ScoreOf(clean, candidates, i, context_names) ==
    compute_combined_score(clean, candidates[i].choice, context_names).combined

\* the i-th candidate wins: no candidate scores higher, and none before it
\* scores as high
Wins(clean, candidates, i, context_names) ==
    /\ \A j \in 1..Len(candidates) :
          RatGeq(ScoreOf(clean, candidates, i, context_names),
                 ScoreOf(clean, candidates, j, context_names))
    /\ \A j \in 1..(i - 1) :
          RatGt(ScoreOf(clean, candidates, i, context_names),
                ScoreOf(clean, candidates, j, context_names))

\* the winner among the candidates
WinnerAmong(clean, candidates, context_names) ==
    candidates[CHOOSE i \in 1..Len(candidates) :
                  Wins(clean, candidates, i, context_names)]

\* the key that wins for the normalized text: of the CANDIDATE_LIMIT keys
\* most similar to it, the one of the highest combined score
Winner(clean, gazetteer, context_names) ==
    WinnerAmong(clean, extract(clean, Keys(gazetteer), CANDIDATE_LIMIT),
                context_names)

\* the last token of a name
LastToken(name) == split(name)[Len(split(name))]

\* the replacement the claim states for the key that won
StatedForm(clean, key, canonical) ==
    IF Len(split(clean)) = 1
    THEN IF \E i \in 1..Len(key) : key[i] = " "
         THEN LastToken(canonical) ELSE key
    ELSE canonical

\* C14: replacement form.  A correction find_best_match returns for a
\* single-token input is a single token: the matched key when the key has no
\* space, else the last token of the key's canonical name; for an input of
\* several tokens it is the canonical name of the matched key.
C14_ReplacementForm ==
    (Matched /\ fc.match # NoCorrection) =>
        /\ fc.match.corrected =
              StatedForm(EntityClean(fc.entity_text),
                         Winner(EntityClean(fc.entity_text), fc.gazetteer,
                                fc.context_names).choice,
                         Get(fc.gazetteer,
                             Winner(EntityClean(fc.entity_text), fc.gazetteer,
                                    fc.context_names).choice))
        /\ Len(split(EntityClean(fc.entity_text))) = 1 =>
              Len(split(fc.match.corrected)) = 1

\* "Kurd" against the single key "Kurt Zouma": the last token of the
\* canonical name
C14_Witness ==
    /\ Matched
    /\ fc.entity_text = Kurd
    /\ fc.gazetteer = GazFullName
    /\ fc.match # NoCorrection
    /\ fc.match.corrected = Zouma

\* the spans of the list for which find_best_match returns a correction
Accepted(entities, gazetteer, context_names) ==
    { entities[i] : i \in { j \in 1..Len(entities) :
         find_best_match(entities[j].text, gazetteer, context_names)
            # NoCorrection } }

\* what an accepted span is replaced by
ReplacementOf(e, gazetteer, context_names) ==
    Replacement(e.text,
                find_best_match(e.text, gazetteer, context_names).corrected)

\* the text from offset pos on, with every accepted span replaced at its
\* offsets in the original text and every other character kept
RECURSIVE ReplacedFrom(_, _, _, _, _)
ReplacedFrom(text, pos, accepted, gazetteer, context_names) ==
    IF pos >= Len(text) THEN <<>>
    ELSE IF \E e \in accepted : e.start_char = pos
    THEN LET e == CHOOSE e \in accepted : e.start_char = pos IN
         ReplacementOf(e, gazetteer, context_names)
            \o ReplacedFrom(text, e.end_char, accepted, gazetteer,
                            context_names)
    ELSE <<text[pos + 1]>>
            \o ReplacedFrom(text, pos + 1, accepted, gazetteer, context_names)

\* C15: whole-text rewriting.  For any list of spans of the text, the text
\* correct_segment_text returns is the text with every accepted span
\* replaced once, at its original offsets, and every other character kept;
\* every recorded correction carries the segment id.
C15_WholeTextRewriting ==
    Rewritten =>
        /\ fc.result.corrected_text =
              ReplacedFrom(fc.text, 0,
                           Accepted(fc.entities, fc.gazetteer, fc.context_names),
                           fc.gazetteer, fc.context_names)
        /\ \A k \in 1..Len(fc.result.corrections) :
              fc.result.corrections[k].segment_id = fc.segment_id

\* the threshold the claim states for a normalized text of n characters
StatedThreshold(n) == IF n <= 4 THEN 48 ELSE IF n <= 8 THEN 55 ELSE 55

\* find_best_match gets as far as scoring candidates for the entity
Scored(entity_text, gazetteer) ==
    /\ gazetteer # <<>>
    /\ Len(EntityClean(entity_text)) > 2
    /\ ~Excluded(entity_text)
    /\ ~Canonical(entity_text, gazetteer)

\* the combined score of the winner for the entity
WinningScore(clean, gazetteer, context_names) ==
    compute_combined_score(clean, Winner(clean, gazetteer, context_names).choice,
                           context_names).combined

\* C16: adaptive acceptance.  find_best_match returns a correction only if
\* its combined score is at least the threshold for the length of the
\* normalized text: 48 up to 4 characters, 55 for 5 to 8, 55 above 8, a
\* threshold that never falls as the length grows; if the winner among the
\* candidates scores below the threshold, None is returned.
C16_AdaptiveAcceptance ==
    Matched =>
        /\ fc.match # NoCorrection =>
              RatGeq(fc.match.combined_score,
                     RatInt(StatedThreshold(Len(EntityClean(fc.entity_text)))))
        /\ (Scored(fc.entity_text, fc.gazetteer)
               /\ ~RatGeq(WinningScore(EntityClean(fc.entity_text), fc.gazetteer,
                                       fc.context_names),
                          RatInt(StatedThreshold(Len(EntityClean(fc.entity_text))))))
              => fc.match = NoCorrection
        /\ \A shorter \in EntityTexts :
              Len(shorter) <= Len(fc.entity_text) =>
                 get_fuzzy_threshold(shorter) <= get_fuzzy_threshold(fc.entity_text)
        /\ get_fuzzy_threshold(fc.entity_text) = StatedThreshold(Len(fc.entity_text))

\* "Zuma" against the single key "Kurt Zouma", a context name: the winner
\* scores 40.7, below 48
C16_Witness ==
    /\ Matched
    /\ fc.entity_text = Zuma
    /\ fc.gazetteer = GazFullName
    /\ fc.context_names = {KurtZouma}
    /\ jellyfish.raises = "no"
    /\ WinningScore(Zuma, GazFullName, {KurtZouma}) = Rat(285, 7)
    /\ fc.match = NoCorrection

---------------------------------------------------------------------------
(* Single calls of filter_segment and filter_segments *)

\* longest segment list handed to filter_segments
MaxFilterSegs == 2

\* a text of more than REMOVED_TEXT_CHARS digits
LongDigits == [i \in 1..(REMOVED_TEXT_CHARS + 1) |-> "1"]

\* the texts of the segments: nothing, blanks, an ideograph, "3 on 2",
\* "12", "ok", " ok go ", "abcdefg 123" (seven letters in ten characters),
\* eight words, a word and an ideograph, many digits
FilterTexts ==
    { <<>>, <<" ", " ">>, <<CJK>>, <<"3", " ", "o", "n", " ", "2">>,
      <<"1", "2">>, Ok, <<" ", "o", "k", " ", "g", "o", " ">>,
      <<"a", "b", "c", "d", "e", "f", "g", " ", "1", "2", "3">>,
      <<"a", " ", "b", " ", "c", " ", "d", " ", "e", " ", "f", " ", "g", " ", "h">>,
      <<"o", "k", " ", CJK>>, LongDigits }

\* what langdetect does: not installed, raising, or reporting a language
Detectors == { "missing", "raises", "en", "sco", "fr" }

\* the segment lists: up to MaxFilterSegs segments, the first h1 of the
\* first half
FilterLists ==
    UNION { { SegmentList(n, h1, text, [k \in 1..n |-> FALSE]) :
                 text \in [1..n -> FilterTexts], h1 \in {0, n} } :
               n \in 0..MaxFilterSegs }

FilterInit ==
    /\ langdetect \in Detectors
    /\ jellyfish = Jellyfish("no")
    /\ ner = Detections
    /\ hf \in [pc : {"ready"}, segments : FilterLists]
    /\ fc = [pc |-> "off"]
    /\ gz = [pc |-> "off"]
    /\ upd = [pc |-> "off"]
    /\ LearnedInit
    /\ DedupIdle
    /\ PipelineIdle

\* filter_segment(segment) returns, for a segment of the list
FilterSegment ==
    /\ hf.pc = "ready"
    /\ \E i \in 1..Len(hf.segments) :
          hf' = [pc |-> "returned", fn |-> "filter_segment",
                 segment |-> hf.segments[i],
                 result |-> filter_segment(hf.segments[i])]
    /\ UNCHANGED <<fc, gz, upd, ddvars, ldvars, envvars, cmvars>>

\* filter_segments(segments) returns
FilterSegmentList ==
    /\ hf.pc = "ready"
    /\ hf' = [pc |-> "returned", fn |-> "filter_segments",
              segments |-> hf.segments,
              result |-> filter_segments(hf.segments)]
    /\ UNCHANGED <<fc, gz, upd, ddvars, ldvars, envvars, cmvars>>

FilterNext == FilterSegment \/ FilterSegmentList

SpecFilter == FilterInit /\ [][FilterNext]_vars

\* filter_segment has returned
Filtered == hf.pc = "returned" /\ hf.fn = "filter_segment"

\* filter_segments has returned
ListFiltered == hf.pc = "returned" /\ hf.fn = "filter_segments"

---------------------------------------------------------------------------
(* Properties of the hallucination filter *)

\* the rules in the order the claim states them
RuleOrder ==
    << "empty_segment", "non_latin_characters", "low_alpha_ratio",
       "too_few_words", "non_english_detected" >>

\* the characters of a text that are no blanks, and its letters a-z, A-Z
ContentChars(text) == {i \in 1..Len(text) : text[i] # " "}
Letters(text) == {i \in 1..Len(text) : text[i] \in AsciiAlpha}

\* the number of words: the starts of runs of characters that are no blanks
Words(text) ==
    Cardinality({i \in 1..Len(text) :
                    text[i] # " " /\ (i = 1 \/ text[i - 1] = " ")})

\* the rule fails for the text of the segment; blanks count for nothing
Fails(rule, text) ==
    CASE rule = "empty_segment" -> ContentChars(text) = {}
      [] rule = "non_latin_characters" ->
            \E i \in 1..Len(text) : text[i] = CJK
      [] rule = "low_alpha_ratio" ->
            100 * Cardinality(Letters(text)) < 70 * Cardinality(ContentChars(text))
               \/ ContentChars(text) = {}
      [] rule = "too_few_words" -> Words(text) < 2
      [] rule = "non_english_detected" ->
            /\ Words(text) >= 8
            /\ langdetect \notin {"missing", "raises", "en", "sco", "cy"}

\* C17: filter rule order.  filter_segment looks at its rules in the order
\* empty, non-Latin script, low ASCII-alpha ratio, too few words,
\* non-English; the reason it returns is that of the first rule that fails,
\* and the segment is valid, with no reason, exactly if no rule fails.
C17_FilterRuleOrder ==
    Filtered =>
        /\ hf.result.is_valid <=>
              \A r \in 1..Len(RuleOrder) : ~Fails(RuleOrder[r], hf.segment.text)
        /\ hf.result.is_valid => hf.result.reason = NoReason
        /\ \A r \in 1..Len(RuleOrder) :
              (Fails(RuleOrder[r], hf.segment.text)
                  /\ \A q \in 1..(r - 1) : ~Fails(RuleOrder[q], hf.segment.text))
                 => /\ ~hf.result.is_valid
                    /\ hf.result.reason.rule = RuleOrder[r]

\* a one-word segment that is an ideograph: the script, the alpha ratio and
\* the word count all fail, the reason is the script
C17_Witness ==
    /\ Filtered
    /\ hf.segment.text = <<CJK>>
    /\ Fails("low_alpha_ratio", hf.segment.text)
    /\ Fails("too_few_words", hf.segment.text)
    /\ hf.result.reason.rule = "non_latin_characters"

\* filter_segment finds the segment valid
Valid(seg) == filter_segment(seg).is_valid
Invalid(seg) == ~filter_segment(seg).is_valid

\* the entry of the removal log for a segment
RemovalEntry(seg) ==
    [segment_id |-> seg.segment_id, half |-> seg.half,
     start_time |-> seg.start_time,
     text |-> SubSeq(seg.text, 1, Min(Len(seg.text), 80)),
     reason |-> filter_segment(seg).reason]

\* C18: batch filter partition.  filter_segments returns the valid segments,
\* unmodified and in input order, and a removal log with one entry for every
\* other segment, in input order, each carrying the reason filter_segment
\* returns for its segment; every input segment is in exactly one of the two.
C18_FilterPartition ==
    ListFiltered =>
        /\ hf.result.kept = SelectSeq(hf.segments, Valid)
        /\ Len(hf.result.removed) = Len(SelectSeq(hf.segments, Invalid))
        /\ \A k \in 1..Len(hf.result.removed) :
              hf.result.removed[k] =
                 RemovalEntry(SelectSeq(hf.segments, Invalid)[k])
        /\ Len(hf.result.kept) + Len(hf.result.removed) = Len(hf.segments)
        /\ \A i \in 1..Len(hf.segments) :
              Cardinality({k \in 1..Len(hf.result.kept) :
                              hf.result.kept[k] = hf.segments[i]})
                 + Cardinality({k \in 1..Len(hf.result.removed) :
                                   /\ hf.result.removed[k].segment_id
                                         = hf.segments[i].segment_id
                                   /\ hf.result.removed[k].half
                                         = hf.segments[i].half}) = 1

\* a rejected segment whose text is longer than the log keeps, and valid
\* segments behind it
C18_Witness ==
    /\ ListFiltered
    /\ Len(hf.segments) = MaxFilterSegs
    /\ hf.segments[1].text = LongDigits
    /\ Len(hf.result.kept) = MaxFilterSegs - 1
    /\ Len(hf.result.removed) = 1
    /\ Len(hf.result.removed[1].text) = REMOVED_TEXT_CHARS
    /\ hf.result.removed[1].reason.rule = "low_alpha_ratio"

---------------------------------------------------------------------------
(* Single calls of build_gazetteer *)

\* most members of the learned corrections file
MaxLearned == 2

City == <<"C", "i", "t", "y">>
Blues == <<"B", "l", "u", "e", "s">>
MikeDean == <<"M", "i", "k", "e", " ", "D", "e", "a", "n">>
Etihad == <<"E", "t", "i", "h", "a", "d">>
PepGol == <<"P", "e", "p", " ", "G", "o", "l">>

\* metadata with a coach, a referee, team names with alternatives, a venue
TeamLabels ==
    [EmptyLabels EXCEPT
        !.lineup.home.coach = << Person(PepGol, <<"P", "e", "p">>, <<>>) >>,
        !.referee = << MikeDean >>,
        !.gameHomeTeam = City,
        !.gameAwayTeam = Blues,
        !.home = [name |-> City, names |-> << <<"M", "C">>, City >>],
        !.away = [name |-> <<>>, names |-> << Blues >>],
        !.venue = << Etihad >>]

\* the same with the referee under referee_matched
MatchedLabels ==
    [TeamLabels EXCEPT !.referee_matched = << MikeDean >>, !.referee = <<>>]

\* a player listed as "Zouma", short name "KZ", before the player
\* "Kurt Zouma"
MononymLabels ==
    [EmptyLabels EXCEPT
        !.lineup.home.players =
            << Person(Zouma, <<"K", "Z">>, <<>>), Person(KurtZouma, <<>>, <<>>) >>]

GazetteerLabels ==
    { NoLabels, EmptyLabels, EventLabels, TeamLabels, MatchedLabels,
      MononymLabels }

\* a member of the learned corrections file, as one sighting leaves it
LearnedMember(key, correct) ==
    [key |-> key, correct |-> correct, confidence |-> Rat(1, 2),
     seen_count |-> 1, fuzzy_score_avg |-> RatInt(80)]

\* the members: "zuma" for "Zouma" as clean_match records it, the key
\* "Bony" of the metadata for "Boney", "turi" without a correct name,
\* "blues" for "Blues"
LearnedMembers ==
    { LearnedMember(lower(Zuma), Zouma), LearnedMember(Bony, Boney),
      LearnedMember(lower(Turi), <<>>), LearnedMember(lower(Blues), Blues) }

\* the learned corrections file: none, or up to MaxLearned members of
\* different keys
LearnedFiles ==
    {NoFile}
       \cup UNION { { [exists |-> TRUE, members |-> m] :
                         m \in { f \in [1..n -> LearnedMembers] :
                                    \A i, j \in 1..n : i # j => f[i].key # f[j].key } } :
                      n \in 0..MaxLearned }

GazetteerInit ==
    /\ Libraries
    /\ store_file \in LearnedFiles
    /\ op = "none"
    /\ returned = None
    /\ lookup_text = None
    /\ lookup_result = None
    /\ recorded = NothingRecorded
    /\ gz \in [pc : {"ready"}, labels : GazetteerLabels,
               include_learned : BOOLEAN]
    /\ fc = [pc |-> "off"]
    /\ hf = [pc |-> "off"]
    /\ upd = [pc |-> "off"]
    /\ DedupIdle
    /\ PipelineIdle

\* build_gazetteer(labels, include_learned) returns
BuildGazetteerCall ==
    /\ gz.pc = "ready"
    /\ gz' = [pc |-> "returned", labels |-> gz.labels,
              include_learned |-> gz.include_learned,
              gazetteer |-> build_gazetteer(gz.labels, gz.include_learned,
                                            store_file)]
    /\ UNCHANGED <<fc, hf, upd, ddvars, ldvars, envvars, cmvars>>

GazetteerNext == BuildGazetteerCall

SpecGazetteer == GazetteerInit /\ [][GazetteerNext]_vars

\* build_gazetteer has returned
Built == gz.pc = "returned"

---------------------------------------------------------------------------
(* Properties of build_gazetteer *)

\* C19: directory invariant.  In the gazetteer build_gazetteer returns,
\* every canonical name, that is every value, is a key and maps to itself.
C19_CanonicalMapsToItself ==
    Built =>
        \A i \in 1..Len(gz.gazetteer) :
            /\ Has(gz.gazetteer, gz.gazetteer[i][2])
            /\ Get(gz.gazetteer, gz.gazetteer[i][2]) = gz.gazetteer[i][2]

\* the gazetteer of the same metadata with include_learned unset
EventGazetteer == build_gazetteer(gz.labels, FALSE, store_file)

\* the learned entry of a key, in the file read
LearnedCorrect(key) == Get(ParseStore(store_file), key).correct

\* C20: event priority over learned memory.  With include_learned set,
\* every key of the event metadata maps to the canonical it maps to with
\* include_learned unset, and every other key is a learned key mapped to its
\* learned correct name.
C20_EventPriority ==
    (Built /\ gz.include_learned) =>
        /\ \A i \in 1..Len(EventGazetteer) :
              /\ Has(gz.gazetteer, EventGazetteer[i][1])
              /\ Get(gz.gazetteer, EventGazetteer[i][1]) = EventGazetteer[i][2]
        /\ \A i \in 1..Len(gz.gazetteer) :
              ~Has(EventGazetteer, gz.gazetteer[i][1]) =>
                  /\ Has(ParseStore(store_file), gz.gazetteer[i][1])
                  /\ gz.gazetteer[i][2] = LearnedCorrect(gz.gazetteer[i][1])
                  /\ gz.gazetteer[i][2] # <<>>

\* the file holds "Bony" for "Boney" and "zuma" for "Zouma", and the
\* metadata lists "Bony": the key keeps "Bony" and "zuma" is added
C20_Witness ==
    /\ Built
    /\ gz.include_learned
    /\ gz.labels = EventLabels
    /\ Has(ParseStore(store_file), Bony)
    /\ LearnedCorrect(Bony) = Boney
    /\ Get(gz.gazetteer, Bony) = Bony
    /\ Has(gz.gazetteer, lower(Zuma))
    /\ Get(gz.gazetteer, lower(Zuma)) = Zouma

---------------------------------------------------------------------------
(* update_learned_dictionary called by two runs that share the file *)

\* the runs of the pipeline
Runs == {1, 2}

\* the corrections of a run
RunCorrections == { Recorded(Zuma, Zouma, 78), Recorded(Boney, Bony, 78) }

\* the lists handed over: clean_match calls only with a non-empty list
\* (orchestrator.py lines 175-176)
RunBatches == UNION { [1..n -> RunCorrections] : n \in 1..MaxBatch }

\* a run that has not called yet
NotCalled ==
    [pc |-> "idle", corrections |-> <<>>, dictionary |-> EmptyDict,
     dirty |-> FALSE]

ConcurrentInit ==
    /\ upd \in [pc : {"run"}, locked : BOOLEAN, unreadable : {FALSE},
                calls : {[p \in Runs |-> NotCalled]}]
    /\ fc = [pc |-> "off"]
    /\ hf = [pc |-> "off"]
    /\ gz = [pc |-> "off"]
    /\ LearnedInit
    /\ DedupIdle
    /\ Libraries
    /\ PipelineIdle

\* the call of run p is between its entry and its return
InProgress(p) == upd.calls[p].pc \in {"called", "loaded", "opened"}

\* run p calls update_learned_dictionary(corrections); serialized runs wait
\* for the call of the other run to return
CallUpdate(p) ==
    /\ upd.pc = "run"
    /\ upd.calls[p].pc = "idle"
    /\ upd.locked => \A q \in Runs \ {p} : ~InProgress(q)
    /\ \E corrections \in RunBatches :
          /\ upd' = [upd EXCEPT !.calls[p].pc = "called",
                                !.calls[p].corrections = corrections]
          /\ recorded' = RecordAll(recorded, corrections, Len(corrections))
    /\ UNCHANGED <<store_file, op, returned, lookup_text, lookup_result>>
    /\ UNCHANGED <<fc, hf, gz, ddvars, envvars, cmvars>>

\* lines 59-81: the file is read and the loop runs on the dict read;
\* json.load raises when the file does not hold a JSON document
LoadDictionary(p) ==
    /\ upd.pc = "run"
    /\ upd.calls[p].pc = "called"
    /\ upd' =
         IF upd.unreadable
         THEN [upd EXCEPT !.calls[p].pc = "raised"]
         ELSE [upd EXCEPT
                  !.calls[p].pc = "loaded",
                  !.calls[p].dictionary =
                      UpdateAll(load_learned_dictionary(store_file).dictionary,
                                upd.calls[p].corrections,
                                Len(upd.calls[p].corrections))]
    /\ UNCHANGED <<ldvars, fc, hf, gz, ddvars, envvars, cmvars>>

\* line 42: open(..., "w") creates the file or truncates it
OpenFile(p) ==
    /\ upd.pc = "run"
    /\ upd.calls[p].pc = "loaded"
    /\ upd' = [upd EXCEPT !.calls[p].pc = "opened",
                          !.calls[p].dirty = FALSE,
                          !.unreadable = TRUE]
    /\ store_file' = [exists |-> TRUE, members |-> <<>>]
    /\ UNCHANGED <<op, returned, lookup_text, lookup_result, recorded>>
    /\ UNCHANGED <<fc, hf, gz, ddvars, envvars, cmvars>>

\* line 43 and the return: json.dump writes the dict from the start of the
\* file.  When another run has written since this run opened the file, the
\* bytes of the other run that lie beyond this run's remain, and the file
\* holds this run's document or no document.
DumpDictionary(p) ==
    /\ upd.pc = "run"
    /\ upd.calls[p].pc = "opened"
    /\ \E whole \in (IF upd.calls[p].dirty THEN BOOLEAN ELSE {TRUE}) :
          upd' = [upd EXCEPT
                     !.unreadable = ~whole,
                     !.calls = [q \in Runs |->
                                  IF q = p
                                  THEN [upd.calls[q] EXCEPT !.pc = "returned"]
                                  ELSE IF upd.calls[q].pc = "opened"
                                  THEN [upd.calls[q] EXCEPT !.dirty = TRUE]
                                  ELSE upd.calls[q]]]
    /\ store_file' = save_learned_dictionary(upd.calls[p].dictionary)
    /\ UNCHANGED <<op, returned, lookup_text, lookup_result, recorded>>
    /\ UNCHANGED <<fc, hf, gz, ddvars, envvars, cmvars>>

ConcurrentNext ==
    \E p \in Runs :
        \/ CallUpdate(p)
        \/ LoadDictionary(p)
        \/ OpenFile(p)
        \/ DumpDictionary(p)

SpecConcurrent == ConcurrentInit /\ [][ConcurrentNext]_vars

---------------------------------------------------------------------------
(* Properties of the runs that share the file *)

\* no call is in progress
Quiet == \A p \in Runs : ~InProgress(p)

\* the file holds, under each key, as many sightings as corrections were
\* handed over under it
EverySightingStored ==
    \A k \in LearnedKeys :
        IF recorded[k].count = 0 THEN k \notin DOMAIN Stored
        ELSE k \in DOMAIN Stored /\ Stored[k].seen_count = recorded[k].count

\* C22: lost update under concurrency.  With strictly serialized runs no
\* call raises, and whenever no call is in progress the file holds a
\* document with every sighting handed over.  With runs that are not
\* serialized there is an interleaving after which a key's sighting count is
\* smaller than the number of corrections handed over for it, or the key is
\* missing: that state is C22_Witness.
C22_SerializedKeepsEverySighting ==
    (upd.pc = "run" /\ upd.locked) =>
        /\ \A p \in Runs : upd.calls[p].pc # "raised"
        /\ Quiet => (~upd.unreadable /\ EverySightingStored)

\* both runs have returned, the file holds a document, and a key handed over
\* is missing or has fewer sightings than corrections handed over
C22_Witness ==
    /\ upd.pc = "run"
    /\ ~upd.locked
    /\ \A p \in Runs : upd.calls[p].pc = "returned"
    /\ ~upd.unreadable
    /\ \E k \in LearnedKeys :
          /\ recorded[k].count > 0
          /\ \/ k \notin DOMAIN Stored
             \/ Stored[k].seen_count < recorded[k].count

---------------------------------------------------------------------------
(* Properties of the scoring of candidates *)

\* the candidates find_best_match scores for the entity
Candidates(entity_text, gazetteer) ==
    extract(EntityClean(entity_text), Keys(gazetteer), CANDIDATE_LIMIT)

\* the correction is that of the i-th candidate, which wins
Selected(match, clean, candidates, i, gazetteer, context_names) ==
    /\ Wins(clean, candidates, i, context_names)
    /\ match.combined_score = ScoreOf(clean, candidates, i, context_names)
    /\ match.corrected =
          StatedForm(clean, candidates[i].choice,
                     Get(gazetteer, candidates[i].choice))

\* every candidate scores 0
AllScoreZero(clean, candidates, context_names) ==
    \A i \in 1..Len(candidates) :
        ScoreOf(clean, candidates, i, context_names) = RatInt(0)

\* C24: candidate selection.  find_best_match scores at most 5 candidates;
\* a correction it returns is that of a candidate whose combined score is
\* the maximum over the candidates and which comes first, in ranking order,
\* among those that reach the maximum; its score is above 0, and when every
\* candidate scores 0 None is returned.
C24_CandidateSelection ==
    (Matched /\ Scored(fc.entity_text, fc.gazetteer)) =>
        /\ Len(Candidates(fc.entity_text, fc.gazetteer)) <= 5
        /\ fc.match # NoCorrection =>
              /\ RatGt(fc.match.combined_score, RatInt(0))
              /\ \E i \in 1..Len(Candidates(fc.entity_text, fc.gazetteer)) :
                    Selected(fc.match, EntityClean(fc.entity_text),
                             Candidates(fc.entity_text, fc.gazetteer), i,
                             fc.gazetteer, fc.context_names)
        /\ AllScoreZero(EntityClean(fc.entity_text),
                        Candidates(fc.entity_text, fc.gazetteer),
                        fc.context_names)
              => fc.match = NoCorrection

\* "Zuma" against seven keys: five are scored, "Zuuma" and "Zouma" reach the
\* same score and "Zuuma", ranked first, is the correction
C24_Witness ==
    /\ Matched
    /\ fc.entity_text = Zuma
    /\ fc.gazetteer = GazSquad
    /\ jellyfish.raises = "no"
    /\ Len(Keys(fc.gazetteer)) > CANDIDATE_LIMIT
    /\ Len(Candidates(Zuma, GazSquad)) = CANDIDATE_LIMIT
    /\ Candidates(Zuma, GazSquad)[1].choice = Zuuma
    /\ Candidates(Zuma, GazSquad)[2].choice = Zouma
    /\ ScoreOf(Zuma, Candidates(Zuma, GazSquad), 1, fc.context_names)
          = ScoreOf(Zuma, Candidates(Zuma, GazSquad), 2, fc.context_names)
    /\ fc.match # NoCorrection
    /\ fc.match.corrected = Zuuma

\* one code is a prefix of the other
CodePrefix(code1, code2) == startswith(code1, code2) \/ startswith(code2, code1)

\* the phonetic score of the entity and the i-th candidate
PhoneticOf(clean, candidates, i) ==
    compute_phonetic_score(clean, candidates[i].choice)

\* the score the claim states for two strings whose encodings the library
\* gives
StatedPhonetic(s, t) ==
    IF metaphone(s) = metaphone(t) THEN RatInt(100)
    ELSE IF CodePrefix(metaphone(s), metaphone(t)) \/ soundex(s) = soundex(t)
    THEN RatInt(75)
    ELSE RatInt(0)

\* the combined score of the i-th candidate without the phonetic signal
UnsignalledScore(clean, candidates, i, context_names) ==
    CombinedScore(token_sort_ratio(lower(clean), lower(candidates[i].choice)),
                  RatInt(0),
                  candidates[i].choice \in context_names).combined

KnownSpellings(labels, gazetteer) ==
    { k : k \in { build_gazetteer(labels, FALSE, NoFile)[i][1] :
                     i \in 1..Len(build_gazetteer(labels, FALSE, NoFile)) } }
       \cup { gazetteer[i][2] : i \in 1..Len(gazetteer) }
       \cup { LastToken(gazetteer[i][2]) : i \in 1..Len(gazetteer) }

\* C30: corrections only produce known-good spellings.  Against the
\* gazetteer build_gazetteer returns for the event with the learned
\* corrections merged in, the corrected value of a correction
\* find_best_match returns is a spelling of the event metadata, a canonical
\* value or the last token of one.
C30_KnownSpellingsOnly ==
    (Matched /\ fc.gazetteer = GazLearned /\ fc.match # NoCorrection) =>
        fc.match.corrected \in KnownSpellings(EventLabels, GazLearned)

===========================================================================
